---- MODULE Spec2Model ----
(***************************************************************************)
(* Verification model of visual-qa-agent: the check-matrix orchestration   *)
(* (VisualQAAgent.checkPage), the issue detector and de-duplication, the   *)
(* visual_qa_check tool handler and the batch semaphore of                 *)
(* visual_qa_check_batch.                                                  *)
(*                                                                         *)
(* User-visible strings of the source are Russian; the model keeps their   *)
(* structure and uses short ASCII renderings of the literal text.          *)
(***************************************************************************)
EXTENDS Integers, Sequences, FiniteSets, TLC

(***************************************************************************)
(* Bounds of the model.                                                    *)
(***************************************************************************)
\* largest number of DOM findings a single page rendering exhibits
MaxFindings == 2
\* largest value of the millisecond clock (Date.now())
MaxClock == 2
\* largest number of URLs submitted to one batch call
MaxSubmitted == 11
\* largest issue list given to deduplicateIssues on its own
MaxDedupLen == 3
\* largest number of uncaught page errors seen by captureConsole
MaxJsErrors == 1

(***************************************************************************)
(* Numbers fixed by the program.                                           *)
(***************************************************************************)
CONCURRENCY == 3
MaxBatchUrls == 10
MinScreenshotBytes == 1000
TouchCap == 10
ContrastCap == 5
FontCap == 5
ImgAltCap == 5
ServerErrorStatus == 500

Min(a, b) == IF a < b THEN a ELSE b

RECURSIVE Flatten(_)
Flatten(ss) == IF ss = <<>> THEN <<>> ELSE Head(ss) \o Flatten(Tail(ss))

\* Array.prototype.slice(0, n)
Slice(s, n) == SubSeq(s, 1, Min(Len(s), n))

(***************************************************************************)
(* Configuration loaded by init(): device_profiles (categories in order,   *)
(* each an ordered list of devices) and test_profiles.                     *)
(***************************************************************************)
DeviceProfiles ==
    << << [id |-> "iphone_14", name |-> "iPhone 14", is_mobile |-> TRUE,
           has_touch |-> TRUE, width |-> 390] >>,
       << [id |-> "desktop_hd", name |-> "Desktop HD", is_mobile |-> FALSE,
           has_touch |-> FALSE, width |-> 1920] >> >>

\* all |-> TRUE stands for  devices: 'all'; the profile 'legacy' lists the
\* id pixel_9, which no category of device_profiles holds
TestProfiles ==
    [p \in {"quick", "legacy", "full"} |->
        CASE p = "quick" -> [all |-> FALSE,
                             devices |-> <<"iphone_14">>,
                             browsers |-> <<"chromium">>]
          [] p = "legacy" -> [all |-> FALSE,
                              devices |-> <<"iphone_14", "pixel_9">>,
                              browsers |-> <<"chromium">>]
          [] p = "full"  -> [all |-> TRUE,
                             devices |-> <<>>,
                             browsers |-> <<"chromium", "firefox">>]]

DevicesWithId(deviceId) ==
    SelectSeq(Flatten(DeviceProfiles), LAMBDA d : d.id = deviceId)

RECURSIVE ResolveIds(_)
ResolveIds(ids) ==
    IF ids = <<>> THEN <<>>
    ELSE LET m == DevicesWithId(Head(ids))
         IN  (IF m = <<>> THEN <<>> ELSE <<Head(m)>>) \o ResolveIds(Tail(ids))

\* an absent profile resolved to an empty matrix instead of a throw
getDevicesForProfile_m(profileName) ==
    IF profileName \notin DOMAIN TestProfiles
    THEN [ok |-> TRUE, devices |-> <<>>, browsers |-> <<>>]
    ELSE LET profile == TestProfiles[profileName]
         IN  [ok |-> TRUE,
              devices |-> IF profile.all THEN Flatten(DeviceProfiles)
                          ELSE ResolveIds(profile.devices),
              browsers |-> profile.browsers]

\* ok = FALSE: throws Error('profile not found')
getDevicesForProfile(profileName) ==
    IF profileName \notin DOMAIN TestProfiles
    THEN [ok |-> FALSE, devices |-> <<>>, browsers |-> <<>>]
    ELSE LET profile == TestProfiles[profileName]
         IN  [ok |-> TRUE,
              devices |-> IF profile.all THEN Flatten(DeviceProfiles)
                          ELSE ResolveIds(profile.devices),
              browsers |-> profile.browsers]

\* const colorSchemes = checkDarkMode ? ['light', 'dark'] : ['light']
colorSchemes(checkDarkMode) ==
    IF checkDarkMode THEN <<"light", "dark">> ELSE <<"light">>

\* the loops over browsers and devices exchanged
TupleAt_m(k, schemes, browsers, devices) ==
    LET B == Len(browsers)
        D == Len(devices)
    IN  [colorScheme |-> schemes[((k - 1) \div (B * D)) + 1],
         browser     |-> browsers[((k - 1) % B) + 1],
         device      |-> devices[(((k - 1) % (B * D)) \div B) + 1]]

\* position k of the three nested for-loops of checkPage
TupleAt(k, schemes, browsers, devices) ==
    LET B == Len(browsers)
        D == Len(devices)
    IN  [colorScheme |-> schemes[((k - 1) \div (B * D)) + 1],
         browser     |-> browsers[(((k - 1) % (B * D)) \div D) + 1],
         device      |-> devices[((k - 1) % D) + 1]]

Matrix(schemes, browsers, devices) ==
    [k \in 1..(Len(schemes) * Len(browsers) * Len(devices)) |->
        TupleAt(k, schemes, browsers, devices)]

(***************************************************************************)
(* validateUrl: a URL is modelled by what new URL() makes of it.           *)
(***************************************************************************)
Urls == { [parses |-> TRUE,  protocol |-> "https:", host |-> "a.example"],
          [parses |-> TRUE,  protocol |-> "https:", host |-> "b.example"],
          [parses |-> TRUE,  protocol |-> "ftp:",   host |-> "a.example"],
          [parses |-> FALSE, protocol |-> "",       host |-> ""] }

validateUrl(url) == url.parses /\ url.protocol \in {"http:", "https:"}

(***************************************************************************)
(* IssueDetector.  A page rendering is the ordered list of DOM facts the   *)
(* in-page scripts find; each check turns its facts into issues.           *)
(***************************************************************************)
NullEl == [tag |-> "", selector |-> "", text |-> ""]

\* the DOM facts a rendering may exhibit, in document order
DomFacts ==
    << [check |-> "hscroll", el |-> NullEl],
       [check |-> "touch",
        el |-> [tag |-> "img", selector |-> "#logo", text |-> ""]],
       [check |-> "imgalt",
        el |-> [tag |-> "img", selector |-> "#logo", text |-> ""]] >>

FactsAt(S) ==
    LET idx == SelectSeq([k \in 1..Len(DomFacts) |-> k], LAMBDA k : k \in S)
    IN  [j \in 1..Len(idx) |-> DomFacts[idx[j]]]

Renderings ==
    { FactsAt(S) : S \in { T \in SUBSET (1..Len(DomFacts)) :
                             Cardinality(T) <= MaxFindings } }

ByCheck(facts, check) == SelectSeq(facts, LAMBDA f : f.check = check)

NewIssue(id, type, severity, title, device, el, wcag, blocks) ==
    [id |-> id, type |-> type, severity |-> severity, title |-> title,
     device |-> device.name, element |-> el, wcag |-> wcag,
     blocks_release |-> blocks, colorScheme |-> ""]

checkHorizontalScroll(facts, device) ==
    LET f == ByCheck(facts, "hscroll")
    IN  IF f = <<>> THEN <<>>
        ELSE << NewIssue("horizontal-scroll-" \o device.id, "layout",
                         "critical", "Horizontal scroll on page", device,
                         f[1].el, "", TRUE) >>

checkOverflow(facts, device) ==
    LET f == ByCheck(facts, "overflow")
    IN  [j \in 1..Len(f) |->
            NewIssue("overflow-" \o f[j].el.tag \o "-" \o device.id, "layout",
                     "critical",
                     "Element " \o f[j].el.tag \o " overflows the screen",
                     device, f[j].el, "", TRUE)]

checkTouchTargets(facts, device) ==
    LET f == Slice(ByCheck(facts, "touch"), TouchCap)
    IN  [j \in 1..Len(f) |->
            NewIssue("touch-target-" \o f[j].el.selector \o "-" \o device.id,
                     "accessibility", "warning",
                     "Touch target too small: " \o
                        (IF f[j].el.text # "" THEN f[j].el.text
                                              ELSE f[j].el.tag),
                     device, f[j].el, "2.5.5", FALSE)]

checkContrast(facts, device) ==
    LET f == Slice(ByCheck(facts, "contrast"), ContrastCap)
    IN  [j \in 1..Len(f) |->
            NewIssue("contrast-" \o f[j].el.selector \o "-" \o device.id,
                     "accessibility", "warning",
                     "Low text contrast: " \o f[j].el.text,
                     device, f[j].el, "1.4.3", FALSE)]

checkFontSize(facts, device) ==
    LET f == Slice(ByCheck(facts, "font"), FontCap)
    IN  [j \in 1..Len(f) |->
            NewIssue("font-size-" \o f[j].el.selector \o "-" \o device.id,
                     "typography", "warning",
                     "Text too small: " \o f[j].el.text,
                     device, f[j].el, "1.4.4", FALSE)]

checkImageAlt(facts, device) ==
    LET f == Slice(ByCheck(facts, "imgalt"), ImgAltCap)
    IN  [j \in 1..Len(f) |->
            NewIssue("img-alt-" \o device.id, "accessibility", "critical",
                     "Image without alt text", device, f[j].el, "1.1.1",
                     TRUE)]

checkOverlap(facts, device) == <<>>

severityOrder(s) ==
    CASE s = "critical" -> 0 [] s = "warning" -> 1 [] OTHER -> 2

\* the comparator of prioritizeIssues orders by this rank; sort is stable
PriorityRank(i) ==
    2 * severityOrder(i.severity) + (IF i.type = "accessibility" THEN 0 ELSE 1)

prioritizeIssues(issues) ==
    Flatten([r \in 1..6 |->
                SelectSeq(issues, LAMBDA i : PriorityRank(i) = r - 1)])

detectIssues(facts, device) ==
    prioritizeIssues(
        checkHorizontalScroll(facts, device)
        \o checkOverflow(facts, device)
        \o (IF device.is_mobile \/ device.has_touch
            THEN checkTouchTargets(facts, device) ELSE <<>>)
        \o checkContrast(facts, device)
        \o checkFontSize(facts, device)
        \o checkImageAlt(facts, device)
        \o checkOverlap(facts, device))

(***************************************************************************)
(* The battery on a page whose in-page scripts may throw.  A page is its   *)
(* DOM facts, the checks whose first page.evaluate throws, and what the    *)
(* second evaluate of checkHorizontalScroll (the search for the element    *)
(* that overflows) does: it finds one, returns null, or throws.            *)
(***************************************************************************)
CheckNames == {"hscroll", "overflow", "touch", "contrast", "font", "imgalt"}

WideEl == [tag |-> "svg", selector |-> "svg", text |-> ""]

\* the DOM facts of the page, the hscroll fact carrying the element found
PageFacts(page) ==
    [k \in 1..Len(page.facts) |->
        IF page.facts[k].check = "hscroll"
        THEN [check |-> "hscroll",
              el |-> IF page.locate = "found" THEN WideEl ELSE NullEl]
        ELSE page.facts[k]]

\* a check without its try/catch: the exception of page.evaluate escapes
TryEvaluate_m(page, check, issues) ==
    IF check \in page.throwing
    THEN [threw |-> TRUE, issues |-> <<>>]
    ELSE [threw |-> FALSE, issues |-> issues]

\* try { await page.evaluate(...); issues.push(...) } catch (e) { warn }
\* return issues
TryEvaluate(page, check, issues) ==
    IF check \in page.throwing
    THEN [threw |-> FALSE, issues |-> <<>>]
    ELSE [threw |-> FALSE, issues |-> issues]

\* checkHorizontalScroll: both evaluate calls are inside the one try block
TryHorizontalScroll(page, device) ==
    LET facts == PageFacts(page)
    IN  TryEvaluate(page, "hscroll",
            IF ByCheck(facts, "hscroll") # <<>> /\ page.locate = "throws"
            THEN <<>>
            ELSE checkHorizontalScroll(facts, device))

\* detectIssues(page, device): threw = the promise rejected
detectIssuesOnPage(page, device) ==
    LET facts == PageFacts(page)
        parts == << TryHorizontalScroll(page, device),
                    TryEvaluate(page, "overflow", checkOverflow(facts, device)),
                    IF device.is_mobile \/ device.has_touch
                    THEN TryEvaluate(page, "touch",
                                     checkTouchTargets(facts, device))
                    ELSE [threw |-> FALSE, issues |-> <<>>],
                    TryEvaluate(page, "contrast", checkContrast(facts, device)),
                    TryEvaluate(page, "font", checkFontSize(facts, device)),
                    TryEvaluate(page, "imgalt", checkImageAlt(facts, device)),
                    [threw |-> FALSE, issues |-> checkOverlap(facts, device)] >>
        threw == \E k \in 1..Len(parts) : parts[k].threw
    IN  [threw |-> threw,
         issues |-> IF threw THEN <<>>
                    ELSE prioritizeIssues(
                           Flatten([k \in 1..Len(parts) |-> parts[k].issues]))]

\* the number in the blocker line taken from the warnings
generateSummaryForAgent_m(issues) ==
    LET critical == Len(SelectSeq(issues, LAMBDA i : i.severity = "critical"))
        warnings == Len(SelectSeq(issues, LAMBDA i : i.severity = "warning"))
        info     == Len(SelectSeq(issues, LAMBDA i : i.severity = "info"))
    IN  [total_issues |-> Len(issues),
         blocks_release |-> critical > 0,
         by_severity |-> [critical |-> critical, warning |-> warnings,
                          info |-> info],
         action_required |->
            IF critical > 0
            THEN "BLOCKER: fix " \o ToString(warnings)
                 \o " critical issues before release"
            ELSE IF warnings > 0
            THEN "Recommended: fix " \o ToString(warnings) \o " warnings"
            ELSE "All checks passed"]

generateSummaryForAgent(issues) ==
    LET critical == Len(SelectSeq(issues, LAMBDA i : i.severity = "critical"))
        warnings == Len(SelectSeq(issues, LAMBDA i : i.severity = "warning"))
        info     == Len(SelectSeq(issues, LAMBDA i : i.severity = "info"))
    IN  [total_issues |-> Len(issues),
         blocks_release |-> critical > 0,
         by_severity |-> [critical |-> critical, warning |-> warnings,
                          info |-> info],
         action_required |->
            IF critical > 0
            THEN "BLOCKER: fix " \o ToString(critical)
                 \o " critical issues before release"
            ELSE IF warnings > 0
            THEN "Recommended: fix " \o ToString(warnings) \o " warnings"
            ELSE "All checks passed"]

(***************************************************************************)
(* VisualQAAgent.deduplicateIssues                                         *)
(***************************************************************************)
\* `${issue.type}-${issue.element?.selector || issue.title}`
DedupKey(issue) ==
    issue.type \o "-" \o
    (IF issue.element.selector # "" THEN issue.element.selector
                                     ELSE issue.title)

\* the device is pushed without the includes() test
MergeDevice_m(existing, device) ==
    LET base == IF "affected_devices" \in DOMAIN existing
                THEN existing.affected_devices ELSE <<existing.device>>
    IN  [affected_devices |-> Append(base, device)] @@ existing

\* seen.get(key): affected_devices gains issue.device unless already included
MergeDevice(existing, device) ==
    LET base == IF "affected_devices" \in DOMAIN existing
                THEN existing.affected_devices ELSE <<existing.device>>
    IN  [affected_devices |->
            IF \E k \in 1..Len(base) : base[k] = device
            THEN base ELSE Append(base, device)] @@ existing

\* seen is the Map, as a list of [key, value] in insertion order
RECURSIVE DedupFold(_, _)
DedupFold(seen, issues) ==
    IF issues = <<>> THEN seen
    ELSE LET issue == Head(issues)
             key   == DedupKey(issue)
             hit   == {k \in 1..Len(seen) : seen[k].key = key}
         IN  IF hit # {}
             THEN LET k == CHOOSE k \in hit : TRUE
                  IN  DedupFold([seen EXCEPT ![k].value =
                                    MergeDevice(@, issue.device)],
                                Tail(issues))
             ELSE DedupFold(
                    Append(seen,
                           [key |-> key,
                            value |-> [affected_devices |-> <<issue.device>>]
                                      @@ issue]),
                    Tail(issues))

deduplicateIssues(issues) ==
    LET seen == DedupFold(<<>>, issues)
    IN  [k \in 1..Len(seen) |-> seen[k].value]

(***************************************************************************)
(* VisualQAAgent.runChecks and its two helpers                             *)
(***************************************************************************)
checkLayout(metaWidth, device) ==
    [issues |-> IF metaWidth # device.width
                THEN << [type |-> "layout", severity |-> "warning"] >>
                ELSE <<>>,
     hasCritical |-> FALSE]

basicVisualCheck(shotLen) ==
    [issues |-> IF shotLen < MinScreenshotBytes
                THEN << [type |-> "visual", severity |-> "critical"] >>
                ELSE <<>>]

runChecks(shotLen, metaWidth, device) ==
    LET layoutCheck == checkLayout(metaWidth, device)
        visualCheck == basicVisualCheck(shotLen)
        status == IF Len(layoutCheck.issues) > 0
                  THEN (IF layoutCheck.hasCritical THEN "failed" ELSE "warning")
                  ELSE "passed"
    IN  [status |-> status,
         issues |-> layoutCheck.issues \o visualCheck.issues,
         metrics |-> [screenshotSize |-> shotLen]]

(***************************************************************************)
(* PixelComparator.  A file is a PNG raster (width, height, one value per  *)
(* pixel) or something that does not decode.  Percentages are counted in   *)
(* units of 0.0001 %, the precision of toFixed(4).                         *)
(***************************************************************************)
\* units per percent: diffPercent.toFixed(4)
PercentScale == 10000
\* acceptablePercent = 0.1
DefaultAcceptable == 1000
\* warningPercent = 1.0
DefaultWarning == 10000

NullPath == ""

NotPng == [png |-> FALSE, width |-> 0, height |-> 0, data |-> <<>>]

NullImage == [loaded |-> FALSE, width |-> 0, height |-> 0, data |-> <<>>]

\* resolves to the parsed image, or to null when the stream errors
loadPNG(file) ==
    IF file.png
    THEN [loaded |-> TRUE, width |-> file.width, height |-> file.height,
          data |-> file.data]
    ELSE NullImage

\* the pixelmatch call: the number of pixels that differ
pixelmatch(data1, data2) ==
    Cardinality({k \in 1..Len(data1) : data1[k] # data2[k]})

\* parseFloat(((diffPixels / totalPixels) * 100).toFixed(4))
DiffPercent(diffPixels, totalPixels) ==
    (2 * diffPixels * 100 * PercentScale + totalPixels) \div (2 * totalPixels)

\* compare from the diff buffer to its return value, with the diff raster
\* it saves
DiffOutcome(data1, data2, width, height, outputDiffPath) ==
    LET diffPixels == pixelmatch(data1, data2)
        totalPixels == width * height
    IN  [result |->
            [success |-> TRUE,
             match |-> diffPixels = 0,
             diffPixels |-> diffPixels,
             totalPixels |-> totalPixels,
             diffPercent |-> DiffPercent(diffPixels, totalPixels),
             dimensions |-> [width |-> width, height |-> height],
             diffImagePath |-> IF diffPixels > 0 THEN outputDiffPath
                                                 ELSE NullPath],
         writes |-> IF outputDiffPath # NullPath /\ diffPixels > 0
                    THEN {outputDiffPath} ELSE {}]

LoadFailure ==
    [result |-> [error |-> "Could not load the images", success |-> FALSE],
     writes |-> {}]

\* images of different sizes compared over the pixels both have
compare_m(file1, file2, outputDiffPath) ==
    LET img1 == loadPNG(file1)
        img2 == loadPNG(file2)
        n == Min(Len(img1.data), Len(img2.data))
    IN  IF ~img1.loaded \/ ~img2.loaded THEN LoadFailure
        ELSE DiffOutcome(SubSeq(img1.data, 1, n), SubSeq(img2.data, 1, n),
                         Min(img1.width, img2.width),
                         Min(img1.height, img2.height), outputDiffPath)

\* compare(image1Path, image2Path, outputDiffPath) on the files at the paths
compare(file1, file2, outputDiffPath) ==
    LET img1 == loadPNG(file1)
        img2 == loadPNG(file2)
    IN  IF ~img1.loaded \/ ~img2.loaded THEN LoadFailure
        ELSE IF img1.width # img2.width \/ img1.height # img2.height
        THEN [result |->
                 [success |-> FALSE,
                  sizeMismatch |-> TRUE,
                  image1 |-> [width |-> img1.width, height |-> img1.height],
                  image2 |-> [width |-> img2.width, height |-> img2.height],
                  message |-> "Image sizes differ"],
              writes |-> {}]
        ELSE DiffOutcome(img1.data, img2.data, img1.width, img1.height,
                         outputDiffPath)

\* the thresholds taken from the defaults whatever the call gives
ThresholdOf_m(thresholds, name, default) == default

\* const { acceptablePercent = 0.1, warningPercent = 1.0 } = thresholds
ThresholdOf(thresholds, name, default) ==
    IF name \in DOMAIN thresholds THEN thresholds[name] ELSE default

analyzeResults(comparison, thresholds) ==
    LET acceptablePercent ==
            ThresholdOf(thresholds, "acceptablePercent", DefaultAcceptable)
        warningPercent ==
            ThresholdOf(thresholds, "warningPercent", DefaultWarning)
    IN  IF ~comparison.success
        THEN [status |-> "error", severity |-> "critical",
              message |-> IF "error" \in DOMAIN comparison
                          THEN comparison.error ELSE "Comparison error"]
        ELSE IF comparison.match
        THEN [status |-> "passed", severity |-> "none",
              message |-> "Images are identical"]
        ELSE IF comparison.diffPercent < acceptablePercent
        THEN [status |-> "passed", severity |-> "none",
              message |-> "Minimal differences"]
        ELSE IF comparison.diffPercent < warningPercent
        THEN [status |-> "warning", severity |-> "warning",
              message |-> "Minor differences", requiresReview |-> TRUE]
        ELSE [status |-> "failed", severity |-> "critical",
              message |-> "Significant differences", requiresReview |-> TRUE]

\* the names of a directory in the order readdir lists them
getPNGFiles(dir, order) == SelectSeq(order, LAMBDA f : f \in DOMAIN dir)

\* [...baselineFiles, ...currentFiles] without the Set
AllFiles_m(baselineFiles, currentFiles) == baselineFiles \o currentFiles

\* new Set([...baselineFiles, ...currentFiles]), in insertion order
AllFiles(baselineFiles, currentFiles) ==
    baselineFiles \o
    SelectSeq(currentFiles,
              LAMBDA f : \A k \in 1..Len(baselineFiles) : baselineFiles[k] # f)

\* the body of the loop of compareDirectories for one file name
DirectoryEntry(file, baselineDir, currentDir, outputDir) ==
    LET hasBaseline == file \in DOMAIN baselineDir
        hasCurrent == file \in DOMAIN currentDir
        diffPath == outputDir \o "/diff_" \o file
    IN  IF ~hasBaseline /\ hasCurrent
        THEN [entry |-> [file |-> file, status |-> "new",
                         message |-> "New screenshot (no baseline)"],
              writes |-> {}]
        ELSE IF hasBaseline /\ ~hasCurrent
        THEN [entry |-> [file |-> file, status |-> "missing",
                         message |-> "Screenshot missing (baseline exists)"],
              writes |-> {}]
        ELSE LET c == compare(baselineDir[file], currentDir[file], diffPath)
                 comparison == c.result
             IN  IF comparison.success /\ comparison.match
                 THEN [entry |-> [file |-> file, status |-> "matched",
                                  diffPercent |-> 0],
                       writes |-> c.writes]
                 ELSE IF comparison.success
                 THEN [entry |-> [file |-> file, status |-> "different",
                                  diffPercent |-> comparison.diffPercent,
                                  diffPixels |-> comparison.diffPixels,
                                  diffImage |-> diffPath],
                       writes |-> c.writes]
                 ELSE [entry |-> [file |-> file, status |-> "error",
                                  error |-> IF "error" \in DOMAIN comparison
                                            THEN comparison.error
                                            ELSE comparison.message],
                       writes |-> c.writes]

\* compareDirectories(baselineDir, currentDir, outputDir); a directory is
\* the function from its file names to its files
compareDirectories(baselineDir, currentDir, outputDir, order) ==
    LET allFiles == AllFiles(getPNGFiles(baselineDir, order),
                             getPNGFiles(currentDir, order))
        done == [k \in 1..Len(allFiles) |->
                    DirectoryEntry(allFiles[k], baselineDir, currentDir,
                                   outputDir)]
        comparisons == [k \in 1..Len(done) |-> done[k].entry]
        count(status) ==
            Len(SelectSeq(comparisons, LAMBDA e : e.status = status))
    IN  [results |->
            [comparisons |-> comparisons,
             summary |-> [total |-> Len(allFiles),
                          matched |-> count("matched"),
                          different |-> count("different"),
                          missing |-> count("missing"),
                          new |-> count("new")]],
         writes |-> UNION {done[k].writes : k \in 1..Len(done)}]

(***************************************************************************)
(* Names of baseline files.  The functions that derive a file name work on *)
(* the characters of a string: a text is the sequence of its characters.   *)
(***************************************************************************)
\* url.substring(0, 100)
SlugMax == 100

UpperCase ==
    <<"A", "B", "C", "D", "E", "F", "G", "H", "I", "J", "K", "L", "M",
       "N", "O", "P", "Q", "R", "S", "T", "U", "V", "W", "X", "Y", "Z">>

LowerCase ==
    <<"a", "b", "c", "d", "e", "f", "g", "h", "i", "j", "k", "l", "m",
       "n", "o", "p", "q", "r", "s", "t", "u", "v", "w", "x", "y", "z">>

Digits == <<"0", "1", "2", "3", "4", "5", "6", "7", "8", "9">>

SeqToSet(q) == {q[k] : k \in 1..Len(q)}

\* the characters of ' (Dark)'
DarkChars == <<" ", "(", "D", "a", "r", "k", ")">>

\* the characters of the strings the model uses
Chars(str) ==
    CASE str = "iPhone 14"  -> <<"i", "P", "h", "o", "n", "e", " ", "1", "4">>
      [] str = "Desktop HD" -> <<"D", "e", "s", "k", "t", "o", "p", " ", "H", "D">>
      [] str = "iPhone 14 (Dark)" ->
            <<"i", "P", "h", "o", "n", "e", " ", "1", "4">> \o DarkChars
      [] str = "Desktop HD (Dark)" ->
            <<"D", "e", "s", "k", "t", "o", "p", " ", "H", "D">> \o DarkChars
      [] str = "https:"     -> <<"h", "t", "t", "p", "s", ":">>
      [] str = "ftp:"       -> <<"f", "t", "p", ":">>
      [] str = "a.example"  -> <<"a", ".", "e", "x", "a", "m", "p", "l", "e">>
      [] str = "b.example"  -> <<"b", ".", "e", "x", "a", "m", "p", "l", "e">>

RECURSIVE Join(_)
Join(text) == IF text = <<>> THEN "" ELSE Head(text) \o Join(Tail(text))

\* String.prototype.toLowerCase
toLowerCase(text) ==
    [k \in 1..Len(text) |->
        IF text[k] \in SeqToSet(UpperCase)
        THEN LowerCase[CHOOSE j \in 1..Len(UpperCase) : UpperCase[j] = text[k]]
        ELSE text[k]]

\* .replace(/\s+/g, '_'): every run of white space becomes one underscore
RECURSIVE ReplaceSpaceRuns(_)
ReplaceSpaceRuns(text) ==
    IF text = <<>> THEN <<>>
    ELSE IF Head(text) = " "
    THEN IF Len(text) > 1 /\ text[2] = " "
         THEN ReplaceSpaceRuns(Tail(text))
         ELSE <<"_">> \o ReplaceSpaceRuns(Tail(text))
    ELSE <<Head(text)>> \o ReplaceSpaceRuns(Tail(text))

\* .replace(/"/g, '')
RemoveQuotes(text) == SelectSeq(text, LAMBDA c : c # "\"")

\* check.device?.toLowerCase().replace(/\s+/g, '_').replace(/"/g, '')
deviceSlug(label) ==
    Join(RemoveQuotes(ReplaceSpaceRuns(toLowerCase(Chars(label)))))

\* the text of a URL that parses
UrlText(url) == Chars(url.protocol) \o <<"/", "/">> \o Chars(url.host)

\* url.replace(/^https?:\/\//, '').replace(/[^a-zA-Z0-9]/g, '_')
\*    .substring(0, 100)
urlToSlug(url) ==
    LET text == UrlText(url)
        rest == IF url.protocol \in {"http:", "https:"}
                THEN SubSeq(text, Len(Chars(url.protocol)) + 3, Len(text))
                ELSE text
        safe == [k \in 1..Len(rest) |->
                    IF rest[k] \in SeqToSet(UpperCase) \cup SeqToSet(LowerCase)
                                   \cup SeqToSet(Digits)
                    THEN rest[k] ELSE "_"]
    IN  Join(SubSeq(safe, 1, Min(Len(safe), SlugMax)))

\* path.join(baselinesPath, urlSlug)
BaselineDirOf(url) == "baselines/" \o urlToSlug(url)

\* `${device.id}_${browserType}.png` in the directory of the URL
SavedBaselinePath(url, device, browserType) ==
    BaselineDirOf(url) \o "/" \o device.id \o "_" \o browserType \o ".png"

\* path.join(baselineDir, `${deviceSlug}_${check.browser}.png`)
LookupBaselinePath(url, check) ==
    BaselineDirOf(url) \o "/" \o deviceSlug(check.device) \o "_"
    \o check.browser \o ".png"

(***************************************************************************)
(* State.  Tool calls are invocations; each has its own locals (the        *)
(* variables indexed by invocation), while the agent's report directory,   *)
(* the browser processes and the clock are shared by all of them.          *)
(***************************************************************************)
Invs == {"A", "B"}

VARIABLES
    args,          \* per invocation: the tool arguments
    pc,            \* per invocation: position in the handler / checkPage
    ti,            \* per invocation: index of the tuple being processed
    browserVar,    \* per invocation: the local  let browser = null
    cur,           \* per invocation: what captureScreenshot returned
    results,       \* per invocation: the CheckResult under construction
    allIssues,     \* per invocation: const allIssues = []
    response,      \* per invocation: what the handler returned
    hist,          \* per invocation: observation of calls made (history)
    thrown,        \* per invocation: the errors thrown inside tuples (history)
    openBrowsers,  \* browser processes launched and not yet closed
    files,         \* the files under reports/screenshots
    now            \* Date.now()

checkVars == <<args, pc, ti, browserVar, cur, results, allIssues, response,
               hist, thrown, openBrowsers, files, now>>

VARIABLES
    bphase,        \* position of the visual_qa_check_batch handler
    burls,         \* args.urls as submitted
    urlsToCheck,   \* const urlsToCheck
    bpc,           \* per task of runWithLimit: its position
    running,       \* let running = 0
    queue,         \* const queue = []  (tasks whose resolver is queued)
    pages          \* per task: the entry its promise resolved to

batchVars == <<bphase, burls, urlsToCheck, bpc, running, queue, pages>>

VARIABLES
    dphase,        \* deduplicateIssues applied on its own: position
    dIn,           \* the issue list given
    dOut           \* the list returned

dedupVars == <<dphase, dIn, dOut>>

VARIABLES
    aiPos,         \* per invocation: index of the record the AI loop is at
    preAi,         \* per invocation: results as they were before the AI loop
    aiLog          \* per invocation: what analyzeScreenshot returned (history)

aiVars == <<aiPos, preAi, aiLog>>

VARIABLES
    detPhase,      \* detectIssues applied to one page: position
    detIn,         \* the page (DOM facts, evaluations that throw) and device
    detOut         \* what detectIssues returned, or that it threw

detVars == <<detPhase, detIn, detOut>>

VARIABLES
    cmpPhase,      \* PixelComparator applied on its own: position
    cmpIn,         \* the files and arguments given
    cmpOut,        \* what it returned
    written        \* the rasters it wrote

cmpVars == <<cmpPhase, cmpIn, cmpOut, written>>

VARIABLES
    blPhase,       \* saveBaseline, then a check with comparison: position
    blArgs,        \* url, profile, checkDarkMode
    blPos,         \* index of the tuple or record being processed
    baselines,     \* the files under baselines/
    blChecks       \* results.checks of the check with comparison

blVars == <<blPhase, blArgs, blPos, baselines, blChecks>>

VARIABLES
    agent,         \* let agent = null  of the server module
    gpc,           \* per tool call: position in getAgent / init
    got,           \* per tool call: the agent as getAgent returned it
    inits          \* number of calls of agent.init() (history)

agVars == <<agent, gpc, got, inits>>

VARIABLES
    requests,      \* this.requests, each time stamp as its age
    rpc,           \* per caller of acquire(): position
    timer,         \* per caller: milliseconds left of its setTimeout
    recent         \* ages of the acquisitions of the last window (history)

rlVars == <<requests, rpc, timer, recent>>

moreVars == <<agVars, rlVars>>

extVars == <<aiVars, detVars, cmpVars, blVars, moreVars>>

vars == <<checkVars, batchVars, dedupVars, extVars>>

NullHandle == <<>>
NullAgent == [created |-> FALSE, standards |-> FALSE, devices |-> FALSE,
              issueDetector |-> FALSE]
NullCur == [facts |-> <<>>, shotLen |-> 0, page |-> NullHandle, path |-> ""]
NullSummary == [total_issues |-> 0, blocks_release |-> FALSE,
                by_severity |-> [critical |-> 0, warning |-> 0, info |-> 0],
                action_required |-> ""]
NoArgs == [active |-> FALSE, url |-> CHOOSE u \in Urls : ~u.parses,
           profile |-> "", checkDarkMode |-> FALSE, captureConsole |-> FALSE,
           aiAnalysis |-> FALSE]
NoResults == [checks |-> <<>>, issues |-> <<>>,
              summary |-> [total |-> 0, passed |-> 0, failed |-> 0,
                           warnings |-> 0, blocks_release |-> FALSE],
              action_summary |-> NullSummary]
NoResponse == [kind |-> "none", status |-> ""]
NoHist == [attempts |-> <<>>, evals |-> <<>>, detected |-> <<>>]

\* captureScreenshot called with its default keepOpen
KeepOpenArg_m == FALSE

\* the fourth argument checkPage gives captureScreenshot
KeepOpenArg == TRUE

MatrixOf(a) ==
    LET r == getDevicesForProfile(a.profile)
    IN  Matrix(colorSchemes(a.checkDarkMode), r.browsers, r.devices)

\* largest device matrix explored
MaxTuples == 4

\* ghost is the name of no profile
ProfileNames == {"quick", "legacy", "full", "ghost"}

CheckArgs ==
    { a \in [active : {TRUE}, url : Urls, profile : ProfileNames,
             checkDarkMode : BOOLEAN, captureConsole : BOOLEAN,
             aiAnalysis : BOOLEAN] :
        Len(MatrixOf(a)) <= MaxTuples }

ErrorMessage(stage) ==
    CASE stage = "url"        -> "Invalid URL"
      [] stage = "launch"     -> "browserType.launch: failed"
      [] stage = "context"    -> "browser.newContext: failed"
      [] stage = "navigation" -> "page.goto: Timeout 30000ms exceeded"
      [] stage = "write"      -> "ENOSPC: no space left on device"

deviceLabel(t) ==
    IF t.colorScheme = "dark" THEN t.device.name \o " (Dark)"
                              ELSE t.device.name

checkId(t) ==
    t.device.id \o "_" \o t.browser \o
    (IF t.colorScheme = "dark" THEN "_dark" ELSE "")

screenshotPath(t, time) ==
    "reports/screenshots/" \o checkId(t) \o "_" \o ToString(time) \o ".png"

\* the catch block without results.summary.failed++
CatchTuple_m(res, t, message) ==
    [res EXCEPT !.checks = Append(@, [device |-> deviceLabel(t),
                                      device_id |-> t.device.id,
                                      browser |-> t.browser,
                                      colorScheme |-> t.colorScheme,
                                      status |-> "error",
                                      error |-> message])]

\* the catch block of one tuple
CatchTuple(res, t, message) ==
    [res EXCEPT !.checks = Append(@, [device |-> deviceLabel(t),
                                      device_id |-> t.device.id,
                                      browser |-> t.browser,
                                      colorScheme |-> t.colorScheme,
                                      status |-> "error",
                                      error |-> message]),
                !.summary.failed = @ + 1]

\* status of a tuple from the issues detected on it
TupleStatus(detectedIssues) ==
    IF \E k \in 1..Len(detectedIssues) : detectedIssues[k].severity = "critical"
    THEN "failed"
    ELSE IF \E k \in 1..Len(detectedIssues) :
                detectedIssues[k].severity = "warning"
    THEN "warning"
    ELSE "passed"

\* results.checks.push({ ..., status, issues_count, ...checkResults })
CheckRecord(t, path, status, detectedIssues, checkResults) ==
    checkResults @@
    [device |-> deviceLabel(t), device_id |-> t.device.id,
     browser |-> t.browser, viewport |-> [width |-> t.device.width],
     is_mobile |-> t.device.is_mobile, colorScheme |-> t.colorScheme,
     screenshot |-> path, status |-> status,
     issues_count |-> Len(detectedIssues)]

CountStatus(summary, status) ==
    [summary EXCEPT !.total = @ + 1,
                    !.passed = IF status = "passed" THEN @ + 1 ELSE @,
                    !.failed = IF status = "failed" THEN @ + 1 ELSE @,
                    !.warnings = IF status \notin {"passed", "failed"}
                                 THEN @ + 1 ELSE @]

TagDark(issues, scheme) ==
    IF scheme = "dark"
    THEN [k \in 1..Len(issues) |->
            [issues[k] EXCEPT !.colorScheme = "dark",
                              !.title = "[Dark Mode] " \o @]]
    ELSE issues

Tuple(i) == MatrixOf(args[i])[ti[i]]

(***************************************************************************)
(* checkPage                                                               *)
(***************************************************************************)
\* entry of checkPage up to the first tuple
CheckPageStart(i) ==
    /\ pc[i] = "start"
    /\ LET r == getDevicesForProfile(args[i].profile)
       IN  IF ~r.ok
           THEN /\ pc' = [pc EXCEPT ![i] = "rejected"]
                /\ UNCHANGED <<results, ti>>
           ELSE /\ results' = [results EXCEPT ![i] = NoResults]
                /\ ti' = [ti EXCEPT ![i] = 1]
                /\ pc' = [pc EXCEPT ![i] =
                            IF Len(MatrixOf(args[i])) = 0 THEN "aggregate"
                                                          ELSE "capture"]
    /\ UNCHANGED <<thrown, batchVars, dedupVars, extVars, args, browserVar, cur, allIssues, response, hist,
                   openBrowsers, files, now>>

\* a throw inside the try of a tuple: the catch block runs
ThrowInTuple(i, stage) ==
    /\ results' = [results EXCEPT ![i] =
                      CatchTuple(@, Tuple(i), ErrorMessage(stage))]
    /\ thrown' = [thrown EXCEPT ![i] =
                     Append(@, [tuple |-> ti[i],
                                message |-> ErrorMessage(stage)])]
    /\ pc' = [pc EXCEPT ![i] = "finally"]

\* captureScreenshot(url, device, browserType, keepOpen, colorScheme)
CaptureScreenshot(i) ==
    /\ pc[i] = "capture"
    /\ hist' = [hist EXCEPT ![i].attempts = Append(@, ti[i])]
    /\ LET h == <<i, ti[i]>>
           afterFinally == IF KeepOpenArg THEN openBrowsers \cup {h}
                                          ELSE openBrowsers
       IN  \/ /\ ~validateUrl(args[i].url)
              /\ ThrowInTuple(i, "url")
              /\ UNCHANGED <<openBrowsers, browserVar, cur>>
           \/ /\ validateUrl(args[i].url)
              /\ \/ /\ ThrowInTuple(i, "launch")
                    /\ UNCHANGED <<openBrowsers, browserVar, cur>>
                 \/ \* newContext / newPage throw before the try block
                    /\ ThrowInTuple(i, "context")
                    /\ openBrowsers' = openBrowsers \cup {h}
                    /\ UNCHANGED <<browserVar, cur>>
                 \/ \* goto throws: finally closes only if !keepOpen
                    /\ ThrowInTuple(i, "navigation")
                    /\ openBrowsers' = afterFinally
                    /\ UNCHANGED <<browserVar, cur>>
                 \/ \E facts \in Renderings, len \in {500, 2000} :
                    /\ len < MinScreenshotBytes => facts = <<>>
                    /\ openBrowsers' = afterFinally
                    /\ browserVar' = [browserVar EXCEPT ![i] =
                          IF KeepOpenArg THEN h ELSE NullHandle]
                    /\ cur' = [cur EXCEPT ![i] =
                          [facts |-> facts, shotLen |-> len,
                           page |-> IF KeepOpenArg THEN h ELSE NullHandle,
                           path |-> ""]]
                    /\ pc' = [pc EXCEPT ![i] = "write"]
                    /\ UNCHANGED <<results, thrown>>
    /\ UNCHANGED <<batchVars, dedupVars, extVars, args, ti, allIssues, response, files, now>>

\* screenshotPath, fs.ensureDir, fs.writeFile
WriteScreenshot(i) ==
    /\ pc[i] = "write"
    /\ LET path == screenshotPath(Tuple(i), now)
       IN  \/ /\ ThrowInTuple(i, "write")
              /\ UNCHANGED <<files, cur>>
           \/ /\ files' = (path :> <<i, ti[i]>>) @@ files
              /\ cur' = [cur EXCEPT ![i].path = path]
              /\ pc' = [pc EXCEPT ![i] = "detect"]
              /\ UNCHANGED <<results, thrown>>
    /\ UNCHANGED <<batchVars, dedupVars, extVars, args, ti, browserVar, allIssues, response, hist,
                   openBrowsers, now>>

\* detectIssues on the page, dark tagging, runChecks, the record, counters
DetectAndRecord(i) ==
    /\ pc[i] = "detect"
    /\ LET t == Tuple(i)
           live == cur[i].page # NullHandle /\ cur[i].page \in openBrowsers
           \* on a closed or null page every evaluate throws inside its check
           found == IF live THEN detectIssues(cur[i].facts, t.device)
                            ELSE <<>>
           detectedIssues == TagDark(found, t.colorScheme)
           checkResults == runChecks(cur[i].shotLen, t.device.width, t.device)
           status == TupleStatus(detectedIssues)
       IN  /\ allIssues' = [allIssues EXCEPT ![i] = @ \o detectedIssues]
           /\ results' = [results EXCEPT
                  ![i].checks = Append(@, CheckRecord(t, cur[i].path, status,
                                              detectedIssues, checkResults)),
                  ![i].summary = CountStatus(@, status)]
           /\ hist' = [hist EXCEPT
                  ![i].evals = Append(@, [tuple |-> ti[i], live |-> live]),
                  ![i].detected = Append(@, [tuple |-> ti[i],
                                             issues |-> detectedIssues])]
    /\ pc' = [pc EXCEPT ![i] = "finally"]
    /\ UNCHANGED <<thrown, batchVars, dedupVars, extVars, args, ti, browserVar, cur, response, openBrowsers, files,
                   now>>

\* finally { if (browser) await browser.close() } and the loop step
FinallyTuple(i) ==
    /\ pc[i] = "finally"
    /\ openBrowsers' = IF browserVar[i] # NullHandle
                       THEN openBrowsers \ {browserVar[i]}
                       ELSE openBrowsers
    /\ browserVar' = [browserVar EXCEPT ![i] = NullHandle]
    /\ cur' = [cur EXCEPT ![i] = NullCur]
    /\ IF ti[i] < Len(MatrixOf(args[i]))
       THEN /\ ti' = [ti EXCEPT ![i] = @ + 1]
            /\ pc' = [pc EXCEPT ![i] = "capture"]
       ELSE /\ pc' = [pc EXCEPT ![i] = "aggregate"]
            /\ UNCHANGED ti
    /\ UNCHANGED <<thrown, batchVars, dedupVars, extVars, args, results, allIssues, response, hist, files, now>>

\* results.summary.blocks_release = results.issues.some(i => i.blocks_release)
BlocksRelease(issues) == \E k \in 1..Len(issues) : issues[k].blocks_release

\* deduplication, blocking verdict, action summary, return results
Aggregate(i) ==
    /\ pc[i] = "aggregate"
    /\ LET issues == deduplicateIssues(allIssues[i])
       IN  results' = [results EXCEPT
               ![i].issues = issues,
               ![i].summary.blocks_release = BlocksRelease(issues),
               ![i].action_summary = generateSummaryForAgent(issues)]
    /\ pc' = [pc EXCEPT ![i] = "returned"]
    /\ UNCHANGED <<thrown, batchVars, dedupVars, extVars, args, ti, browserVar, cur, allIssues, response, hist,
                   openBrowsers, files, now>>

(***************************************************************************)
(* The visual_qa_check tool handler around checkPage                       *)
(***************************************************************************)
\* what captureConsole may have collected: page errors and network errors
\* (status 0 stands for an entry without status, from 'requestfailed')
NetworkLogs ==
    { <<>>,
      << [status |-> 404, failure |-> FALSE] >>,
      << [status |-> 0, failure |-> TRUE] >>,
      << [status |-> 500, failure |-> FALSE] >> }

ConsoleData == [jsErrors : 0..MaxJsErrors, networkErrors : NetworkLogs]

jsErrorIssue(time) ==
    [id |-> "js_error_" \o ToString(time), type |-> "javascript",
     severity |-> "critical", title |-> "JavaScript Error",
     element |-> NullEl, blocks_release |-> TRUE]

networkIssues(networkErrors, time) ==
    LET failedResources ==
            SelectSeq(networkErrors,
                      LAMBDA e : e.status >= ServerErrorStatus \/ e.failure)
        server == \E k \in 1..Len(failedResources) :
                     failedResources[k].status >= ServerErrorStatus
    IN  IF Len(failedResources) > 0
        THEN << [id |-> "network_errors_" \o ToString(time),
                 type |-> "network",
                 severity |-> IF server THEN "critical" ELSE "warning",
                 title |-> "Network Errors (" \o
                           ToString(Len(failedResources)) \o ")",
                 element |-> NullEl,
                 blocks_release |-> server] >>
        ELSE <<>>

\* the issues the handler pushes onto results.issues after captureConsole
consoleIssues(consoleData, time) ==
    [k \in 1..consoleData.jsErrors |-> jsErrorIssue(time)]
    \o networkIssues(consoleData.networkErrors, time)

\* if (captureConsole) { consoleData = await agent.captureConsole(...); ... }
CaptureConsole(i) ==
    /\ pc[i] = "returned"
    /\ args[i].captureConsole
    /\ \/ \* captureConsole throws (validateUrl, navigation): the handler's
          \* catch answers isError
          /\ pc' = [pc EXCEPT ![i] = "failed"]
          /\ response' = [response EXCEPT ![i] =
                            [kind |-> "error", status |-> ""]]
          /\ UNCHANGED results
       \/ \E consoleData \in ConsoleData :
          /\ validateUrl(args[i].url)
          /\ results' = [results EXCEPT ![i].issues =
                            @ \o consoleIssues(consoleData, now)]
          /\ pc' = [pc EXCEPT ![i] = "respond"]
          /\ UNCHANGED response
    /\ UNCHANGED <<thrown, batchVars, dedupVars, extVars, args, ti, browserVar, cur, allIssues, hist, openBrowsers,
                   files, now>>

(***************************************************************************)
(* AI analysis of the screenshots: AIVisionAnalyzer.analyzeScreenshot and  *)
(* the loop of the handler over results.checks                             *)
(***************************************************************************)
\* what the classifier call comes to for one screenshot: the file cannot be
\* read, the API answers JSON with or without issues, or the request fails
\* (timedOut: the message includes 'timed out'; rate: the message includes
\* 'rate' or the status is 429)
AiReplies ==
    { [kind |-> "unreadable", timedOut |-> FALSE, rate |-> FALSE],
      [kind |-> "issues", timedOut |-> FALSE, rate |-> FALSE],
      [kind |-> "noissues", timedOut |-> FALSE, rate |-> FALSE],
      [kind |-> "failure", timedOut |-> TRUE, rate |-> FALSE],
      [kind |-> "failure", timedOut |-> FALSE, rate |-> TRUE],
      [kind |-> "failure", timedOut |-> FALSE, rate |-> FALSE] }

AiIssues ==
    << [severity |-> "critical", category |-> "layout",
        message |-> "Text is cut off"] >>

\* the catch block rethrowing the error of the request
analyzeScreenshot_m(reply) ==
    CASE reply.kind = "unreadable" ->
            [threw |-> FALSE,
             analysis |-> [error |-> "Could not load the image"]]
      [] reply.kind = "issues" ->
            [threw |-> FALSE,
             analysis |-> [issues |-> AiIssues, summary |-> "1 issue"]]
      [] reply.kind = "noissues" ->
            [threw |-> FALSE, analysis |-> [summary |-> "No issues"]]
      [] reply.kind = "failure" ->
            [threw |-> TRUE, analysis |-> [error |-> "AI request failed"]]

\* analyzeScreenshot(screenshotPath, metadata) with the analyzer enabled
analyzeScreenshot(reply) ==
    CASE reply.kind = "unreadable" ->
            [threw |-> FALSE,
             analysis |-> [error |-> "Could not load the image"]]
      [] reply.kind = "issues" ->
            [threw |-> FALSE,
             analysis |-> [issues |-> AiIssues, summary |-> "1 issue"]]
      [] reply.kind = "noissues" ->
            [threw |-> FALSE, analysis |-> [summary |-> "No issues"]]
      [] reply.kind = "failure" ->
            [threw |-> FALSE,
             analysis |->
                [error |-> "AI request failed",
                 errorType |-> IF reply.timedOut THEN "timeout"
                               ELSE IF reply.rate THEN "rate_limit"
                               ELSE "api_error",
                 retryable |-> reply.timedOut \/ reply.rate]]

\* the first record from position k on that has a screenshot, 0 if none
NextWithScreenshot(checks, k) ==
    LET later == {j \in k..Len(checks) : "screenshot" \in DOMAIN checks[j]}
    IN  IF later = {} THEN 0
        ELSE CHOOSE j \in later : \A m \in later : j <= m

\* the handler has checkPage's result and the console issues, if asked for
ConsoleDone(i) ==
    \/ pc[i] = "respond"
    \/ pc[i] = "returned" /\ ~args[i].captureConsole

\* if (aiAnalysis) { const analyzer = getAIAnalyzer(); if (analyzer.enabled)
AIBegin(i) ==
    /\ ConsoleDone(i)
    /\ args[i].aiAnalysis
    /\ preAi' = [preAi EXCEPT ![i] = results[i]]
    /\ \E enabled \in BOOLEAN :
          LET first == IF enabled
                       THEN NextWithScreenshot(results[i].checks, 1) ELSE 0
          IN  /\ aiPos' = [aiPos EXCEPT ![i] = first]
              /\ pc' = [pc EXCEPT ![i] = IF first = 0 THEN "analysed"
                                                      ELSE "ai"]
    /\ UNCHANGED <<aiLog, thrown, batchVars, dedupVars, moreVars, detVars, cmpVars,
                   blVars, args, ti, browserVar, cur, results, allIssues,
                   response, hist, openBrowsers, files, now>>

\* one turn of the loop: analyzeScreenshot settles for the record at aiPos
AnalyzeScreenshot(i) ==
    /\ pc[i] = "ai"
    /\ \E reply \in AiReplies :
          LET k == aiPos[i]
              r == analyzeScreenshot(reply)
              check == results[i].checks[k]
              next == NextWithScreenshot(results[i].checks, k + 1)
          IN  /\ aiLog' = [aiLog EXCEPT ![i] =
                              Append(@, [record |-> k, reply |-> reply])]
              /\ IF r.threw
                 THEN \* the handler's catch answers isError
                      /\ pc' = [pc EXCEPT ![i] = "failed"]
                      /\ response' = [response EXCEPT ![i] =
                                        [kind |-> "error", status |-> ""]]
                      /\ UNCHANGED <<results, aiPos>>
                 ELSE /\ results' = [results EXCEPT ![i].checks[k] =
                            [aiAnalysis |-> r.analysis] @@
                            (IF "issues" \in DOMAIN r.analysis
                             THEN [check EXCEPT
                                     !.issues = @ \o r.analysis.issues]
                             ELSE check)]
                      /\ aiPos' = [aiPos EXCEPT ![i] = next]
                      /\ pc' = [pc EXCEPT ![i] = IF next = 0 THEN "analysed"
                                                             ELSE "ai"]
                      /\ UNCHANGED response
    /\ UNCHANGED <<preAi, thrown, batchVars, dedupVars, moreVars, detVars, cmpVars,
                   blVars, args, ti, browserVar, cur, allIssues, hist,
                   openBrowsers, files, now>>

\* machineReadableResponse.status
ResponseStatus(summary) ==
    IF summary.blocks_release THEN "blocked"
    ELSE IF summary.failed > 0 THEN "failed"
    ELSE IF summary.warnings > 0 THEN "warning"
    ELSE "passed"

\* report generation and the machine readable response
Respond(i) ==
    /\ \/ ConsoleDone(i) /\ ~args[i].aiAnalysis
       \/ pc[i] = "analysed"
    /\ response' = [response EXCEPT ![i] =
                      [kind |-> "result",
                       status |-> ResponseStatus(results[i].summary)]]
    /\ pc' = [pc EXCEPT ![i] = "done"]
    /\ UNCHANGED <<thrown, batchVars, dedupVars, extVars, args, ti, browserVar, cur, results, allIssues, hist,
                   openBrowsers, files, now>>

\* checkPage rejected: the handler's catch answers isError
RespondError(i) ==
    /\ pc[i] = "rejected"
    /\ response' = [response EXCEPT ![i] = [kind |-> "error", status |-> ""]]
    /\ pc' = [pc EXCEPT ![i] = "refused"]
    /\ UNCHANGED <<thrown, batchVars, dedupVars, extVars, args, ti, browserVar, cur, results, allIssues, hist,
                   openBrowsers, files, now>>

\* the millisecond clock advances
Tick ==
    /\ now < MaxClock
    /\ now' = now + 1
    /\ UNCHANGED <<thrown, batchVars, dedupVars, extVars, args, pc, ti, browserVar, cur, results, allIssues,
                   response, hist, openBrowsers, files>>


InitShared ==
    /\ browserVar = [i \in Invs |-> NullHandle]
    /\ cur = [i \in Invs |-> NullCur]
    /\ results = [i \in Invs |-> NoResults]
    /\ allIssues = [i \in Invs |-> <<>>]
    /\ response = [i \in Invs |-> NoResponse]
    /\ hist = [i \in Invs |-> NoHist]
    /\ thrown = [i \in Invs |-> <<>>]
    /\ ti = [i \in Invs |-> 0]
    /\ openBrowsers = {}
    /\ files = << >>
    /\ now = 0

BatchIdle ==
    /\ bphase = "idle"
    /\ burls = <<>>
    /\ urlsToCheck = <<>>
    /\ bpc = <<>>
    /\ running = 0
    /\ queue = <<>>
    /\ pages = <<>>

DedupIdle ==
    /\ dphase = "idle"
    /\ dIn = <<>>
    /\ dOut = <<>>

AiIdle ==
    /\ aiPos = [i \in Invs |-> 0]
    /\ preAi = [i \in Invs |-> NoResults]
    /\ aiLog = [i \in Invs |-> <<>>]

DetIdle ==
    /\ detPhase = "idle"
    /\ detIn = <<>>
    /\ detOut = <<>>

CmpIdle ==
    /\ cmpPhase = "idle"
    /\ cmpIn = <<>>
    /\ cmpOut = <<>>
    /\ written = {}

BlIdle ==
    /\ blPhase = "idle"
    /\ blArgs = <<>>
    /\ blPos = 0
    /\ baselines = {}
    /\ blChecks = <<>>

AgIdle ==
    /\ agent = NullAgent
    /\ gpc = <<>>
    /\ got = <<>>
    /\ inits = 0

RlIdle ==
    /\ requests = <<>>
    /\ rpc = <<>>
    /\ timer = <<>>
    /\ recent = <<>>

MoreIdle == AgIdle /\ RlIdle

ExtIdle == AiIdle /\ DetIdle /\ CmpIdle /\ BlIdle /\ MoreIdle

\* one visual_qa_check call
Init ==
    /\ \E a \in CheckArgs :
          /\ a.url.host # "b.example"
          /\ ~a.aiAnalysis
          /\ args = [i \in Invs |-> IF i = "A" THEN a ELSE NoArgs]
    /\ pc = [i \in Invs |-> IF i = "A" THEN "start" ELSE "idle"]
    /\ InitShared
    /\ BatchIdle
    /\ DedupIdle
    /\ ExtIdle

CheckStep(i) ==
    \/ CheckPageStart(i)
    \/ CaptureScreenshot(i)
    \/ WriteScreenshot(i)
    \/ DetectAndRecord(i)
    \/ FinallyTuple(i)
    \/ Aggregate(i)
    \/ CaptureConsole(i)
    \/ Respond(i)
    \/ RespondError(i)

Next == \E i \in Invs : CheckStep(i)

Spec == Init /\ [][Next]_vars
(***************************************************************************)
(* visual_qa_check_batch: runWithLimit and the tasks it bounds.  A task is *)
(* the promise of one URL; between two awaits a task runs atomically.      *)
(***************************************************************************)
\* the loop condition of runWithLimit compared with one that admits one more
AtLimit_m(r) == r > CONCURRENCY

\* while (running >= CONCURRENCY)
AtLimit(r) == r >= CONCURRENCY

\* urls.slice(0, 9)
UrlsSlice_m(urls) == Slice(urls, MaxBatchUrls - 1)

\* const urlsToCheck = urls.slice(0, 10)
UrlsSlice(urls) == Slice(urls, MaxBatchUrls)

SubmittedUrls(n) == [k \in 1..n |-> "https://site.example/p" \o ToString(k)]

NoEntry == [url |-> "", status |-> "pending", result |-> "", error |-> ""]

\* what the task of a URL resolves to: checkPage returned or threw
BatchEntry(url, threw) ==
    IF threw
    THEN [url |-> url, status |-> "error", result |-> "",
          error |-> "checkPage failed"]
    ELSE [url |-> url, status |-> "success", result |-> "result of " \o url,
          error |-> ""]

\* the handler up to urlsToCheck and the empty semaphore
BatchStart ==
    /\ bphase = "called"
    /\ urlsToCheck' = UrlsSlice(burls)
    /\ bpc' = [k \in 1..Len(UrlsSlice(burls)) |-> "new"]
    /\ pages' = [k \in 1..Len(UrlsSlice(burls)) |-> NoEntry]
    /\ running' = 0
    /\ queue' = <<>>
    /\ bphase' = "spawning"
    /\ UNCHANGED <<burls, checkVars, dedupVars, extVars>>

\* runWithLimit from its loop test to the call of fn or to the suspension
Enter(k) ==
    IF AtLimit(running)
    THEN /\ queue' = Append(queue, k)
         /\ bpc' = [bpc EXCEPT ![k] = "waiting"]
         /\ UNCHANGED running
    ELSE /\ running' = running + 1
         /\ bpc' = [bpc EXCEPT ![k] = "running"]
         /\ UNCHANGED queue

\* urlsToCheck.map: the k-th callback runs to its first await
Spawn(k) ==
    /\ bphase = "spawning"
    /\ bpc[k] = "new"
    /\ \A j \in 1..(k - 1) : bpc[j] # "new"
    /\ Enter(k)
    /\ bphase' = IF k = Len(urlsToCheck) THEN "awaiting" ELSE bphase
    /\ UNCHANGED <<burls, urlsToCheck, pages, checkVars, dedupVars, extVars>>

\* a waiter whose resolver was called resumes at the loop test
Resume(k) ==
    /\ bphase = "awaiting"
    /\ bpc[k] = "woken"
    /\ Enter(k)
    /\ UNCHANGED <<bphase, burls, urlsToCheck, pages, checkVars, dedupVars, extVars>>

\* the finally block without the wake-up: running-- only
Complete_m(k) ==
    /\ bphase = "awaiting"
    /\ bpc[k] = "running"
    /\ \E threw \in BOOLEAN :
          pages' = [pages EXCEPT ![k] = BatchEntry(urlsToCheck[k], threw)]
    /\ running' = running - 1
    /\ bpc' = [bpc EXCEPT ![k] = "done"]
    /\ UNCHANGED <<queue, bphase, burls, urlsToCheck, checkVars, dedupVars,
                   extVars>>

\* fn() settles: the entry, then finally { running--; queue.shift()() }
Complete(k) ==
    /\ bphase = "awaiting"
    /\ bpc[k] = "running"
    /\ \E threw \in BOOLEAN :
          pages' = [pages EXCEPT ![k] = BatchEntry(urlsToCheck[k], threw)]
    /\ running' = running - 1
    /\ IF Len(queue) > 0
       THEN /\ queue' = Tail(queue)
            /\ bpc' = [bpc EXCEPT ![k] = "done", ![Head(queue)] = "woken"]
       ELSE /\ bpc' = [bpc EXCEPT ![k] = "done"]
            /\ UNCHANGED queue
    /\ UNCHANGED <<bphase, burls, urlsToCheck, checkVars, dedupVars, extVars>>

\* Promise.all resolves: batchResults, aggregated.pages
BatchFinish ==
    /\ bphase = "awaiting"
    /\ \A k \in 1..Len(bpc) : bpc[k] = "done"
    /\ bphase' = "done"
    /\ UNCHANGED <<burls, urlsToCheck, bpc, running, queue, pages, checkVars,
                   dedupVars, extVars>>

CheckIdle ==
    /\ args = [i \in Invs |-> NoArgs]
    /\ pc = [i \in Invs |-> "idle"]
    /\ InitShared

\* one visual_qa_check_batch call
InitBatch ==
    /\ bphase = "called"
    /\ \E n \in 1..MaxSubmitted : burls = SubmittedUrls(n)
    /\ urlsToCheck = <<>>
    /\ bpc = <<>>
    /\ running = 0
    /\ queue = <<>>
    /\ pages = <<>>
    /\ CheckIdle
    /\ DedupIdle
    /\ ExtIdle

NextBatch ==
    \/ BatchStart
    \/ \E k \in 1..Len(bpc) : Spawn(k)
    \/ \E k \in 1..Len(bpc) : Resume(k)
    \/ \E k \in 1..Len(bpc) : Complete(k)
    \/ BatchFinish

SpecBatch == InitBatch /\ [][NextBatch]_vars

\* the same call under the scheduling of the event loop: a started callback
\* runs, a continuation whose promise resolved runs, Promise.all settles
\* once all its promises have, and every running URL check terminates
FairBatch ==
    /\ WF_vars(BatchStart)
    /\ WF_vars(BatchFinish)
    /\ \A k \in 1..MaxBatchUrls :
          /\ WF_vars(k \in DOMAIN bpc /\ Spawn(k))
          /\ WF_vars(k \in DOMAIN bpc /\ Resume(k))
          /\ WF_vars(k \in DOMAIN bpc /\ Complete(k))

\* largest number of URLs of a batch whose progress is followed
MaxLiveUrls == 5

\* one visual_qa_check_batch call of at most MaxLiveUrls URLs
InitBatchLive ==
    /\ InitBatch
    /\ Len(burls) <= MaxLiveUrls

SpecBatchLive == InitBatchLive /\ [][NextBatch]_vars /\ FairBatch

(***************************************************************************)
(* Two checkPage calls on the same agent, running concurrently             *)
(***************************************************************************)
InitConc ==
    /\ args = [i \in Invs |->
                 [active |-> TRUE,
                  url |-> [parses |-> TRUE, protocol |-> "https:",
                           host |-> IF i = "A" THEN "a.example"
                                               ELSE "b.example"],
                  profile |-> "quick", checkDarkMode |-> FALSE,
                  captureConsole |-> FALSE, aiAnalysis |-> FALSE]]
    /\ pc = [i \in Invs |-> "start"]
    /\ InitShared
    /\ BatchIdle
    /\ DedupIdle
    /\ ExtIdle

NextConc ==
    \/ \E i \in Invs : CheckPageStart(i)
    \/ \E i \in Invs : CaptureScreenshot(i)
    \/ \E i \in Invs : WriteScreenshot(i)
    \/ \E i \in Invs : DetectAndRecord(i)
    \/ \E i \in Invs : FinallyTuple(i)
    \/ \E i \in Invs : Aggregate(i)
    \/ Tick

SpecConc == InitConc /\ [][NextConc]_vars

(***************************************************************************)
(* deduplicateIssues applied to an arbitrary issue list                    *)
(***************************************************************************)
DedupDevices == {"iPhone 14", "Desktop HD", "iPad Pro"}

\* issues as the detector shapes them, over two types, one selector and two
\* titles of issues without element
DedupIssues ==
    { NewIssue("id", type, "warning", st[2], [name |-> dev],
               [tag |-> "", selector |-> st[1], text |-> ""], "", FALSE) :
        type \in {"layout", "accessibility"},
        st \in { <<"#logo", "t1">>, <<"", "t1">>, <<"", "t2">> },
        dev \in DedupDevices }

InitDedup ==
    /\ dphase = "given"
    /\ \E n \in 0..MaxDedupLen : dIn \in [1..n -> DedupIssues]
    /\ dOut = <<>>
    /\ CheckIdle
    /\ BatchIdle
    /\ ExtIdle

RunDedup ==
    /\ dphase = "given"
    /\ dOut' = deduplicateIssues(dIn)
    /\ dphase' = "done"
    /\ UNCHANGED <<dIn, checkVars, batchVars, extVars>>

NextDedup == RunDedup

SpecDedup == InitDedup /\ [][NextDedup]_vars

(***************************************************************************)
(* One visual_qa_check call with ai_analysis                               *)
(***************************************************************************)
\* largest device matrix of a call with AI analysis
MaxAiTuples == 2

InitAI ==
    /\ InitShared
    /\ BatchIdle
    /\ DedupIdle
    /\ ExtIdle
    /\ \E a \in CheckArgs :
          /\ a.aiAnalysis
          /\ ~a.captureConsole
          /\ a.profile \in DOMAIN TestProfiles
          /\ a.url.host # "b.example"
          /\ Len(MatrixOf(a)) <= MaxAiTuples
          /\ args = [i \in Invs |-> IF i = "A" THEN a ELSE NoArgs]
    /\ pc = [i \in Invs |-> IF i = "A" THEN "start" ELSE "idle"]

NextAI ==
    \/ \E i \in Invs : CheckPageStart(i)
    \/ \E i \in Invs : CaptureScreenshot(i)
    \/ \E i \in Invs : WriteScreenshot(i)
    \/ \E i \in Invs : DetectAndRecord(i)
    \/ \E i \in Invs : FinallyTuple(i)
    \/ \E i \in Invs : Aggregate(i)
    \/ \E i \in Invs : AIBegin(i)
    \/ \E i \in Invs : AnalyzeScreenshot(i)
    \/ \E i \in Invs : Respond(i)

SpecAI == InitAI /\ [][NextAI]_vars

(***************************************************************************)
(* saveBaseline for a URL, then a visual_qa_check of the same URL with     *)
(* compare_baseline                                                        *)
(***************************************************************************)
\* the tuples of saveBaseline: for browserType of browsers, for device
BaselineTuples(a) ==
    LET r == getDevicesForProfile(a.profile)
    IN  Matrix(<<"light">>, r.browsers, r.devices)

\* what compare finds for a record: the rasters are equal, differ in a
\* pixel, or differ in size
BaselinePairs ==
    { << [png |-> TRUE, width |-> 1, height |-> 1, data |-> <<0>>],
         [png |-> TRUE, width |-> 1, height |-> 1, data |-> <<0>>] >>,
      << [png |-> TRUE, width |-> 1, height |-> 1, data |-> <<0>>],
         [png |-> TRUE, width |-> 1, height |-> 1, data |-> <<1>>] >>,
      << [png |-> TRUE, width |-> 1, height |-> 1, data |-> <<0>>],
         [png |-> TRUE, width |-> 2, height |-> 1, data |-> <<0, 0>>] >> }

InitBaseline ==
    /\ CheckIdle
    /\ BatchIdle
    /\ MoreIdle
    /\ DedupIdle
    /\ AiIdle
    /\ DetIdle
    /\ CmpIdle
    /\ blPhase = "called"
    /\ \E a \in CheckArgs :
          /\ a.url.parses
          /\ ~a.captureConsole
          /\ ~a.aiAnalysis
          /\ blArgs = a
    /\ blPos = 0
    /\ baselines = {}
    /\ blChecks = <<>>

\* saveBaseline up to its loops: getDevicesForProfile, fs.ensureDir
SaveBaselineStart ==
    /\ blPhase = "called"
    /\ IF ~getDevicesForProfile(blArgs.profile).ok
       THEN /\ blPhase' = "check"
            /\ UNCHANGED <<baselines, blPos>>
       ELSE /\ baselines' = baselines \cup {BaselineDirOf(blArgs.url)}
            /\ blPos' = 1
            /\ blPhase' = IF Len(BaselineTuples(blArgs)) = 0 THEN "check"
                                                              ELSE "saving"
    /\ UNCHANGED <<blArgs, blChecks, checkVars, batchVars, dedupVars, moreVars, aiVars,
                   detVars, cmpVars>>

\* one turn of the loops: captureScreenshot, then the raster and its
\* metadata are written; a throw of captureScreenshot rejects saveBaseline
SaveBaselineTuple ==
    /\ blPhase = "saving"
    /\ LET t == BaselineTuples(blArgs)[blPos]
           png == SavedBaselinePath(blArgs.url, t.device, t.browser)
           json == BaselineDirOf(blArgs.url) \o "/" \o t.device.id \o "_"
                   \o t.browser \o ".json"
       IN  \/ /\ blPhase' = "check"
              /\ UNCHANGED <<baselines, blPos>>
           \/ /\ validateUrl(blArgs.url)
              /\ baselines' = baselines \cup {png, json}
              /\ IF blPos < Len(BaselineTuples(blArgs))
                 THEN blPos' = blPos + 1 /\ UNCHANGED blPhase
                 ELSE blPhase' = "check" /\ UNCHANGED blPos
    /\ UNCHANGED <<blArgs, blChecks, checkVars, batchVars, dedupVars, moreVars, aiVars,
                   detVars, cmpVars>>

\* the later visual_qa_check: checkPage returns results.checks, a record
\* with screenshot for a tuple that did not throw
CheckForCompare ==
    /\ blPhase = "check"
    /\ getDevicesForProfile(blArgs.profile).ok
    /\ \E E \in SUBSET (1..Len(MatrixOf(blArgs))) :
          /\ ~validateUrl(blArgs.url) => E = 1..Len(MatrixOf(blArgs))
          /\ blChecks' =
                [k \in 1..Len(MatrixOf(blArgs)) |->
                    LET t == MatrixOf(blArgs)[k]
                    IN  IF k \in E
                        THEN [device |-> deviceLabel(t),
                              device_id |-> t.device.id,
                              browser |-> t.browser,
                              colorScheme |-> t.colorScheme,
                              status |-> "error"]
                        ELSE [device |-> deviceLabel(t),
                              device_id |-> t.device.id,
                              browser |-> t.browser,
                              colorScheme |-> t.colorScheme,
                              status |-> "passed",
                              screenshot |-> screenshotPath(t, k)]]
    /\ IF BaselineDirOf(blArgs.url) \in baselines
          /\ Len(MatrixOf(blArgs)) > 0
       THEN blPhase' = "comparing" /\ blPos' = 1
       ELSE blPhase' = "done" /\ UNCHANGED blPos
    /\ UNCHANGED <<blArgs, baselines, checkVars, batchVars, dedupVars, moreVars, aiVars,
                   detVars, cmpVars>>

\* one turn of the loop of the handler over results.checks
CompareBaseline ==
    /\ blPhase = "comparing"
    /\ LET check == blChecks[blPos]
           baselinePath == LookupBaselinePath(blArgs.url, check)
       IN  IF "screenshot" \in DOMAIN check /\ baselinePath \in baselines
           THEN \E pair \in BaselinePairs :
                   LET comparison == compare(pair[1], pair[2],
                                             "diff.png").result
                   IN  blChecks' = [blChecks EXCEPT ![blPos] =
                          [comparison |-> analyzeResults(comparison,
                                                         [n \in {} |-> 0]),
                           baselinePath |-> baselinePath] @@
                          (IF "diffPercent" \in DOMAIN comparison
                           THEN [diffPercent |-> comparison.diffPercent]
                           ELSE [n \in {} |-> 0]) @@ check]
           ELSE UNCHANGED blChecks
    /\ IF blPos < Len(blChecks)
       THEN blPos' = blPos + 1 /\ UNCHANGED blPhase
       ELSE blPhase' = "done" /\ UNCHANGED blPos
    /\ UNCHANGED <<blArgs, baselines, checkVars, batchVars, dedupVars, moreVars, aiVars,
                   detVars, cmpVars>>

NextBaseline ==
    \/ SaveBaselineStart
    \/ SaveBaselineTuple
    \/ CheckForCompare
    \/ CompareBaseline

SpecBaseline == InitBaseline /\ [][NextBaseline]_vars

(***************************************************************************)
(* detectIssues applied to one page                                        *)
(***************************************************************************)
\* largest number of DOM facts of a page given to detectIssues on its own
MaxPageFacts == 3

\* the DOM facts such a page may exhibit, in document order
PageDomFacts ==
    << [check |-> "hscroll", el |-> NullEl],
       [check |-> "overflow",
        el |-> [tag |-> "img", selector |-> ".hero", text |-> ""]],
       [check |-> "touch",
        el |-> [tag |-> "a", selector |-> "#menu", text |-> "Menu"]],
       [check |-> "contrast",
        el |-> [tag |-> "p", selector |-> ".note", text |-> "note"]],
       [check |-> "font",
        el |-> [tag |-> "span", selector |-> ".small", text |-> "terms"]],
       [check |-> "imgalt",
        el |-> [tag |-> "img", selector |-> "#logo", text |-> ""]],
       [check |-> "imgalt",
        el |-> [tag |-> "img", selector |-> "img.banner", text |-> ""]] >>

PageFactsAt(S) ==
    LET idx == SelectSeq([k \in 1..Len(PageDomFacts) |-> k],
                         LAMBDA k : k \in S)
    IN  [j \in 1..Len(idx) |-> PageDomFacts[idx[j]]]

DetPages ==
    { [facts |-> PageFactsAt(S), throwing |-> T, locate |-> l] :
        S \in { U \in SUBSET (1..Len(PageDomFacts)) :
                  Cardinality(U) <= MaxPageFacts },
        T \in SUBSET CheckNames,
        l \in {"found", "none", "throws"} }

InitDetect ==
    /\ CheckIdle
    /\ BatchIdle
    /\ MoreIdle
    /\ DedupIdle
    /\ AiIdle
    /\ CmpIdle
    /\ BlIdle
    /\ detPhase = "given"
    /\ \E page \in DetPages :
       \E k \in 1..Len(Flatten(DeviceProfiles)) :
          detIn = [page |-> page, device |-> Flatten(DeviceProfiles)[k]]
    /\ detOut = <<>>

RunDetect ==
    /\ detPhase = "given"
    /\ detOut' = detectIssuesOnPage(detIn.page, detIn.device)
    /\ detPhase' = "done"
    /\ UNCHANGED <<detIn, checkVars, batchVars, dedupVars, moreVars, aiVars, cmpVars,
                   blVars>>

NextDetect == RunDetect

SpecDetect == InitDetect /\ [][NextDetect]_vars

(***************************************************************************)
(* PixelComparator.compare followed by analyzeResults, on two files        *)
(***************************************************************************)
\* largest number of pixels of a raster
MaxPixels == 4

\* the sizes a raster may have
RasterSizes ==
    {d \in (1..MaxPixels) \X (1..MaxPixels) : d[1] * d[2] <= MaxPixels}

Rasters ==
    UNION { [png : {TRUE}, width : {d[1]}, height : {d[2]},
             data : [1..(d[1] * d[2]) -> {0, 1}]] : d \in RasterSizes }

FileContents == {NotPng} \cup Rasters

\* the thresholds a call may give: none, one of them, or both
ThresholdArgs ==
    { [n \in {} |-> 0],
      [acceptablePercent |-> 0],
      [warningPercent |-> 75 * PercentScale],
      [acceptablePercent |-> 50 * PercentScale,
       warningPercent |-> 75 * PercentScale],
      [acceptablePercent |-> 50 * PercentScale,
       warningPercent |-> 25 * PercentScale] }

InitCompare ==
    /\ CheckIdle
    /\ BatchIdle
    /\ MoreIdle
    /\ DedupIdle
    /\ AiIdle
    /\ DetIdle
    /\ BlIdle
    /\ cmpPhase = "given"
    /\ \E f1 \in FileContents, f2 \in FileContents,
          out \in {NullPath, "reports/diff.png"}, th \in ThresholdArgs :
          cmpIn = [image1 |-> f1, image2 |-> f2, outputDiffPath |-> out,
                   thresholds |-> th]
    /\ cmpOut = <<>>
    /\ written = {}

\* comparison = await comparator.compare(...); analyzeResults(comparison)
RunCompare ==
    /\ cmpPhase = "given"
    /\ LET c == compare(cmpIn.image1, cmpIn.image2, cmpIn.outputDiffPath)
       IN  /\ cmpOut' = [comparison |-> c.result,
                         analysis |-> analyzeResults(c.result,
                                                     cmpIn.thresholds)]
           /\ written' = written \cup c.writes
    /\ cmpPhase' = "done"
    /\ UNCHANGED <<cmpIn, checkVars, batchVars, dedupVars, moreVars, aiVars, detVars,
                   blVars>>

NextCompare == RunCompare

SpecCompare == InitCompare /\ [][NextCompare]_vars

(***************************************************************************)
(* PixelComparator.compareDirectories on two directories                   *)
(***************************************************************************)
\* largest number of file names over the two directories
MaxFileNames == 3

FileNames == [k \in 1..MaxFileNames |-> "shot" \o ToString(k) \o ".png"]

\* what a file of a directory may hold
DirContents ==
    { NotPng,
      [png |-> TRUE, width |-> 1, height |-> 1, data |-> <<0>>],
      [png |-> TRUE, width |-> 1, height |-> 1, data |-> <<1>>],
      [png |-> TRUE, width |-> 2, height |-> 1, data |-> <<0, 0>>] }

Directories ==
    UNION { [{FileNames[k] : k \in S} -> DirContents] :
            S \in SUBSET (1..MaxFileNames) }

InitDirs ==
    /\ CheckIdle
    /\ BatchIdle
    /\ MoreIdle
    /\ DedupIdle
    /\ AiIdle
    /\ DetIdle
    /\ BlIdle
    /\ cmpPhase = "dirs"
    /\ \E b \in Directories, c \in Directories :
          cmpIn = [baselineDir |-> b, currentDir |-> c, outputDir |-> "diffs"]
    /\ cmpOut = <<>>
    /\ written = {}

RunCompareDirectories ==
    /\ cmpPhase = "dirs"
    /\ LET r == compareDirectories(cmpIn.baselineDir, cmpIn.currentDir,
                                   cmpIn.outputDir, FileNames)
       IN  /\ cmpOut' = r.results
           /\ written' = written \cup r.writes
    /\ cmpPhase' = "dirs_done"
    /\ UNCHANGED <<cmpIn, checkVars, batchVars, dedupVars, moreVars, aiVars, detVars,
                   blVars>>

NextDirs == RunCompareDirectories

SpecDirs == InitDirs /\ [][NextDirs]_vars

(***************************************************************************)
(* getAgent of the server: the agent is created on the first tool call and *)
(* every handler starts with  const agent = await getAgent().  Tool calls  *)
(* are handled concurrently; init() suspends at each of its awaits.        *)
(***************************************************************************)
\* number of tool calls that reach getAgent
MaxToolCalls == 3

ToolCalls == 1..MaxToolCalls

\* new VisualQAAgent(...): standards, devices and issueDetector are null
NewAgent == [created |-> TRUE, standards |-> FALSE, devices |-> FALSE,
             issueDetector |-> FALSE]

\* an await of init() rejects: getAgent rejects, agent stays assigned
InitThrows(c) ==
    /\ gpc' = [gpc EXCEPT ![c] = "threw"]
    /\ UNCHANGED <<agent, got, inits>>

\* getAgent up to its return or to the first await of init()
GetAgent(c) ==
    /\ gpc[c] = "called"
    /\ IF ~agent.created
       THEN /\ agent' = NewAgent
            /\ inits' = inits + 1
            /\ gpc' = [gpc EXCEPT ![c] = "readStandards"]
            /\ UNCHANGED got
       ELSE /\ gpc' = [gpc EXCEPT ![c] = "returned"]
            /\ got' = [got EXCEPT ![c] = agent]
            /\ UNCHANGED <<agent, inits>>
    /\ UNCHANGED <<checkVars, batchVars, dedupVars, aiVars, detVars, cmpVars,
                   blVars, rlVars>>

\* this.standards = await fs.readJSON(standardsPath)
ReadStandards(c) ==
    /\ gpc[c] = "readStandards"
    /\ \/ InitThrows(c)
       \/ /\ agent' = [agent EXCEPT !.standards = TRUE]
          /\ gpc' = [gpc EXCEPT ![c] = "readDevices"]
          /\ UNCHANGED <<got, inits>>
    /\ UNCHANGED <<checkVars, batchVars, dedupVars, aiVars, detVars, cmpVars,
                   blVars, rlVars>>

\* this.devices = await fs.readJSON(devicesPath); new IssueDetector(...)
ReadDevices(c) ==
    /\ gpc[c] = "readDevices"
    /\ \/ InitThrows(c)
       \/ /\ agent' = [agent EXCEPT !.devices = TRUE, !.issueDetector = TRUE]
          /\ gpc' = [gpc EXCEPT ![c] = "ensureBaselines"]
          /\ UNCHANGED <<got, inits>>
    /\ UNCHANGED <<checkVars, batchVars, dedupVars, aiVars, detVars, cmpVars,
                   blVars, rlVars>>

\* await fs.ensureDir(this.baselinesPath)
EnsureBaselines(c) ==
    /\ gpc[c] = "ensureBaselines"
    /\ \/ InitThrows(c)
       \/ /\ gpc' = [gpc EXCEPT ![c] = "ensureReports"]
          /\ UNCHANGED <<agent, got, inits>>
    /\ UNCHANGED <<checkVars, batchVars, dedupVars, aiVars, detVars, cmpVars,
                   blVars, rlVars>>

\* await fs.ensureDir(this.reportsPath); return this; return agent
EnsureReports(c) ==
    /\ gpc[c] = "ensureReports"
    /\ \/ InitThrows(c)
       \/ /\ gpc' = [gpc EXCEPT ![c] = "returned"]
          /\ got' = [got EXCEPT ![c] = agent]
          /\ UNCHANGED <<agent, inits>>
    /\ UNCHANGED <<checkVars, batchVars, dedupVars, aiVars, detVars, cmpVars,
                   blVars, rlVars>>

\* the server after start-up, with tool calls about to be handled
InitAgent ==
    /\ CheckIdle
    /\ BatchIdle
    /\ DedupIdle
    /\ AiIdle
    /\ DetIdle
    /\ CmpIdle
    /\ BlIdle
    /\ RlIdle
    /\ agent = NullAgent
    /\ gpc = [c \in ToolCalls |-> "called"]
    /\ got = [c \in ToolCalls |-> NullAgent]
    /\ inits = 0

NextAgent ==
    \/ \E c \in ToolCalls : GetAgent(c)
    \/ \E c \in ToolCalls : ReadStandards(c)
    \/ \E c \in ToolCalls : ReadDevices(c)
    \/ \E c \in ToolCalls : EnsureBaselines(c)
    \/ \E c \in ToolCalls : EnsureReports(c)

SpecAgent == InitAgent /\ [][NextAgent]_vars

(***************************************************************************)
(* RateLimiter.  Time is counted in milliseconds; a time stamp of          *)
(* this.requests is kept as its age, Date.now() minus the stamp, and ages  *)
(* of a full window or more are not told apart (acquire only tests         *)
(* now - time < windowMs).  Callers run on one event loop: acquire runs    *)
(* without interruption up to its push or to its await.                    *)
(***************************************************************************)
\* this.maxRequests of the limiter explored
MaxRequests == 2

\* this.windowMs of the limiter explored
WindowMs == 3

\* number of callers of acquire(), each calling again and again
MaxCallers == 3

Callers == 1..MaxCallers

\* this.requests.filter(time => now - time < this.windowMs)
FilterRequests(reqs) == SelectSeq(reqs, LAMBDA age : age < WindowMs)

\* this.requests.length >= this.maxRequests
LimitReached(reqs) == Len(reqs) >= MaxRequests

\* the body of acquire() for caller c, from Date.now() to the push or to the
\* await of the timer
AcquireBody(c) ==
    LET kept == FilterRequests(requests)
    IN  IF LimitReached(kept)
        THEN /\ requests' = kept
             /\ timer' = [timer EXCEPT ![c] = WindowMs - kept[1]]
             /\ rpc' = [rpc EXCEPT ![c] = "waiting"]
             /\ UNCHANGED recent
        ELSE /\ requests' = Append(kept, 0)
             /\ recent' = Append(recent, 0)
             /\ rpc' = [rpc EXCEPT ![c] = "returned"]
             /\ UNCHANGED timer

\* await this.rateLimiter.acquire()  called by c
Acquire(c) ==
    /\ rpc[c] = "idle"
    /\ AcquireBody(c)
    /\ UNCHANGED <<checkVars, batchVars, dedupVars, aiVars, detVars, cmpVars,
                   blVars, agVars>>

\* the timer of c fires: return this.acquire()
WakeUp(c) ==
    /\ rpc[c] = "waiting"
    /\ timer[c] = 0
    /\ AcquireBody(c)
    /\ UNCHANGED <<checkVars, batchVars, dedupVars, aiVars, detVars, cmpVars,
                   blVars, agVars>>

\* the request of c is over; c may call acquire() again
RequestDone(c) ==
    /\ rpc[c] = "returned"
    /\ rpc' = [rpc EXCEPT ![c] = "idle"]
    /\ UNCHANGED <<requests, timer, recent, checkVars, batchVars, dedupVars,
                   aiVars, detVars, cmpVars, blVars, agVars>>

\* a millisecond passes
Millisecond ==
    /\ requests' = [k \in 1..Len(requests) |->
                        Min(requests[k] + 1, WindowMs)]
    /\ timer' = [c \in DOMAIN timer |->
                     IF timer[c] > 0 THEN timer[c] - 1 ELSE 0]
    /\ recent' = SelectSeq([k \in 1..Len(recent) |-> recent[k] + 1],
                           LAMBDA age : age < WindowMs)
    /\ UNCHANGED <<rpc, checkVars, batchVars, dedupVars, aiVars, detVars,
                   cmpVars, blVars, agVars>>

\* new RateLimiter(maxRequests, windowMs) and its callers
InitRate ==
    /\ CheckIdle
    /\ BatchIdle
    /\ DedupIdle
    /\ AiIdle
    /\ DetIdle
    /\ CmpIdle
    /\ BlIdle
    /\ AgIdle
    /\ requests = <<>>
    /\ rpc = [c \in Callers |-> "idle"]
    /\ timer = [c \in Callers |-> 0]
    /\ recent = <<>>

NextRate ==
    \/ \E c \in Callers : Acquire(c)
    \/ \E c \in Callers : WakeUp(c)
    \/ \E c \in Callers : RequestDone(c)
    \/ Millisecond

\* time passes and a timer that is due fires
FairRate ==
    /\ WF_vars(Millisecond)
    /\ \A c \in Callers : WF_vars(WakeUp(c))

SpecRate == InitRate /\ [][NextRate]_vars /\ FairRate

(***************************************************************************)
(* Properties of checkPage and of the visual_qa_check handler (Spec)       *)
(***************************************************************************)
\* checkPage has returned its CheckResult for invocation i
Returned(i) ==
    pc[i] \in {"returned", "respond", "ai", "analysed", "done", "failed"}

HasSeverity(issues, sev) ==
    \E k \in 1..Len(issues) : issues[k].severity = sev

Pos(s, x) == CHOOSE k \in 1..Len(s) : s[k] = x

LexLess(a, b) ==
    \/ a[1] < b[1]
    \/ a[1] = b[1] /\ a[2] < b[2]
    \/ a[1] = b[1] /\ a[2] = b[2] /\ a[3] < b[3]

\* C2: every browser launched for a tuple is closed on every exit path of
\* that tuple: a browser is open only while its own tuple is in progress,
\* so none is open once checkPage has returned.
C2_BrowsersClosedOnEveryExit ==
    \A h \in openBrowsers :
        /\ pc[h[1]] \in {"write", "detect", "finally"}
        /\ ti[h[1]] = h[2]

\* C3: checkPage yields exactly one record per tuple of colorSchemes x
\* browsers x devices in that nested order; every tuple is attempted once;
\* a tuple that throws yields an 'error' record with the message and the
\* remaining tuples are still processed.
C3_TotalOverMatrix ==
    \A i \in Invs :
        LET c == results[i].checks
            r == getDevicesForProfile(args[i].profile)
            schemes == colorSchemes(args[i].checkDarkMode)
            ids == [k \in 1..Len(r.devices) |-> r.devices[k].id]
            key(rec) == << Pos(schemes, rec.colorScheme),
                           Pos(r.browsers, rec.browser),
                           Pos(ids, rec.device_id) >>
        IN  /\ \A k \in 1..Len(thrown[i]) :
                  /\ thrown[i][k].tuple <= Len(c)
                  /\ c[thrown[i][k].tuple].status = "error"
                  /\ c[thrown[i][k].tuple].error = thrown[i][k].message
            /\ Returned(i) =>
                  /\ Len(c) = Len(schemes) * Len(r.browsers) * Len(r.devices)
                  /\ hist[i].attempts = [k \in 1..Len(c) |-> k]
                  /\ \A k \in 1..Len(c) :
                        /\ \E j \in 1..Len(schemes) :
                              schemes[j] = c[k].colorScheme
                        /\ \E j \in 1..Len(r.browsers) :
                              r.browsers[j] = c[k].browser
                        /\ \E j \in 1..Len(ids) : ids[j] = c[k].device_id
                  /\ \A j, k \in 1..Len(c) :
                        j < k => LexLess(key(c[j]), key(c[k]))

\* a run over a 2 x 2 matrix whose second tuple threw and whose third did not
C3_Witness ==
    \E i \in Invs :
        /\ Returned(i)
        /\ Len(results[i].checks) = 4
        /\ results[i].checks[2].status = "error"
        /\ results[i].checks[3].status # "error"

\* C4: detection of a tuple runs while that tuple's page is open: the page
\* about to be evaluated is open, and no evaluation was ever issued against
\* a closed page.
C4_DetectionBeforeTeardown ==
    \A i \in Invs :
        /\ pc[i] = "detect" => cur[i].page \in openBrowsers
        /\ \A k \in 1..Len(hist[i].evals) : hist[i].evals[k].live

\* a tuple whose detection found issues and whose browser is closed again
C4_Witness ==
    \E i \in Invs : \E k \in 1..Len(hist[i].evals) :
        /\ hist[i].evals[k].live
        /\ hist[i].detected[k].issues # <<>>
        /\ <<i, hist[i].evals[k].tuple>> \notin openBrowsers
        /\ Returned(i)

\* C5: the status of the record of a tuple processed without error is
\* 'failed' if a critical issue was detected on it, else 'warning' if a
\* warning was, else 'passed'.
C5_RecordStatusFromIssues ==
    \A i \in Invs : \A k \in 1..Len(hist[i].detected) :
        LET d == hist[i].detected[k]
        IN  results[i].checks[d.tuple].status =
               IF HasSeverity(d.issues, "critical") THEN "failed"
               ELSE IF HasSeverity(d.issues, "warning") THEN "warning"
               ELSE "passed"

\* C6: a CheckResult handed to the caller with an issue that blocks the
\* release has summary.blocks_release, and one without critical issues has
\* not.
C6_BlockingVerdict ==
    \A i \in Invs :
        pc[i] \in {"returned", "done"} =>
            LET res == results[i]
            IN  /\ (\E k \in 1..Len(res.issues) : res.issues[k].blocks_release)
                      => res.summary.blocks_release
                /\ ~HasSeverity(res.issues, "critical")
                      => ~res.summary.blocks_release

\* C10: the reported status is one of passed, warning, failed, blocked,
\* chosen by blocks_release, then failed > 0, then warnings > 0; 'passed'
\* is reported only if no tuple threw and none had a critical or warning
\* issue.
C10_DefiniteStatus ==
    \A i \in Invs :
        response[i].kind = "result" =>
            LET sm == results[i].summary
                st == response[i].status
            IN  /\ st \in {"passed", "warning", "failed", "blocked"}
                /\ st = "blocked" <=> sm.blocks_release
                /\ st = "failed" <=> ~sm.blocks_release /\ sm.failed > 0
                /\ st = "warning" <=>
                      ~sm.blocks_release /\ sm.failed = 0 /\ sm.warnings > 0
                /\ st = "passed" =>
                      /\ thrown[i] = <<>>
                      /\ \A k \in 1..Len(hist[i].detected) :
                            /\ ~HasSeverity(hist[i].detected[k].issues,
                                            "critical")
                            /\ ~HasSeverity(hist[i].detected[k].issues,
                                            "warning")

\* a run in which each of four tuples threw is reported 'failed'
C10_Witness ==
    \E i \in Invs :
        /\ response[i].kind = "result"
        /\ Len(thrown[i]) = 4
        /\ Len(results[i].checks) = 4
        /\ response[i].status = "failed"
(***************************************************************************)
(* Properties of visual_qa_check_batch (SpecBatch)                         *)
(***************************************************************************)
\* tasks that passed the semaphore and have not released it
InFlight == {k \in 1..Len(bpc) : bpc[k] = "running"}

\* C1: at no instant do more than 3 URL checks hold the semaphore.
C1_ConcurrencyCap == Cardinality(InFlight) <= 3

\* a batch of more than 3 URLs with 3 checks in flight and one waiting
C1_Witness ==
    /\ Cardinality(InFlight) = 3
    /\ Len(queue) > 0
    /\ \E k \in 1..Len(bpc) : bpc[k] = "done"

\* C8 as stated: one page entry per submitted URL, in input order, each
\* success or error.
C8_EntryPerSubmittedUrl ==
    bphase = "done" =>
        /\ Len(pages) = Len(burls)
        /\ \A k \in 1..Len(pages) :
              /\ pages[k].url = burls[k]
              /\ pages[k].status \in {"success", "error"}

\* C8 amended: one page entry for each of the first 10 submitted URLs, in
\* input order, each success (with its result) or error (with the message)
\* whatever happened to the checks of the other URLs.
C8_EntryPerCheckedUrl ==
    bphase = "done" =>
        /\ Len(pages) = Min(Len(burls), 10)
        /\ \A k \in 1..Len(pages) :
              /\ pages[k].url = burls[k]
              /\ \/ pages[k].status = "success" /\ pages[k].result # ""
                 \/ pages[k].status = "error" /\ pages[k].error # ""

\* a finished batch of more than 10 URLs in which a check threw and a later
\* one succeeded
C8_Witness ==
    /\ bphase = "done"
    /\ Len(burls) > 10
    /\ \E j, k \in 1..Len(pages) :
          j < k /\ pages[j].status = "error" /\ pages[k].status = "success"
(***************************************************************************)
(* Properties of deduplicateIssues (SpecDedup)                             *)
(***************************************************************************)
C7Key(issue) ==
    << issue.type,
       IF issue.element.selector # "" THEN issue.element.selector
                                       ELSE issue.title >>

\* C7: the issues of one (type, selector-or-title) key found on k distinct
\* devices become exactly one issue whose affected_devices has k entries,
\* the k devices, none twice.
C7_OnePerKeyWithDevices ==
    dphase = "done" =>
        \A n \in 1..Len(dIn) :
            LET key  == C7Key(dIn[n])
                outs == {j \in 1..Len(dOut) : C7Key(dOut[j]) = key}
                devs == {dIn[m].device :
                            m \in {q \in 1..Len(dIn) : C7Key(dIn[q]) = key}}
            IN  /\ Cardinality(outs) = 1
                /\ \A j \in outs :
                      LET ad == dOut[j].affected_devices
                      IN  /\ Len(ad) = Cardinality(devs)
                          /\ {ad[m] : m \in 1..Len(ad)} = devs

\* three issues of one key on two devices, one device occurring twice
C7_Witness ==
    /\ dphase = "done"
    /\ Len(dIn) = 3
    /\ C7Key(dIn[1]) = C7Key(dIn[2]) /\ C7Key(dIn[2]) = C7Key(dIn[3])
    /\ dIn[1].device = dIn[3].device
    /\ dIn[1].device # dIn[2].device
    /\ Len(dOut) = 1
    /\ Len(dOut[1].affected_devices) = 2

(***************************************************************************)
(* Properties of concurrent checkPage calls (SpecConc)                     *)
(***************************************************************************)
\* C9: the screenshot a record of an invocation references is the one that
\* invocation captured for that tuple, as it is when the invocation runs
\* alone.
C9_OwnScreenshots ==
    \A i \in Invs :
        pc[i] = "returned" =>
            \A k \in 1..Len(results[i].checks) :
                "screenshot" \in DOMAIN results[i].checks[k] =>
                    files[results[i].checks[k].screenshot] = <<i, k>>

(***************************************************************************)
(* Properties of profile resolution (Spec)                                 *)
(***************************************************************************)
\* the ids of the devices of all categories
KnownDeviceIds ==
    {Flatten(DeviceProfiles)[k].id : k \in 1..Len(Flatten(DeviceProfiles))}

\* C11: a call whose profile lists a device id found in no category fails:
\* it never goes on to process tuples or to return a CheckResult.
C11_UnknownDeviceIdFails ==
    \A i \in Invs :
        (/\ args[i].active
         /\ args[i].profile \in DOMAIN TestProfiles
         /\ ~TestProfiles[args[i].profile].all
         /\ \E k \in 1..Len(TestProfiles[args[i].profile].devices) :
                TestProfiles[args[i].profile].devices[k] \notin KnownDeviceIds)
        => pc[i] \in {"start", "rejected", "refused"}

\* C12: a call naming a profile that does not exist fails before any
\* browser is launched and before any tuple is processed, and hands back an
\* error, never a (partial) CheckResult.
C12_AbsentProfileFailsFirst ==
    \A i \in Invs :
        (/\ args[i].active
         /\ args[i].profile \notin DOMAIN TestProfiles
         /\ pc[i] # "start")
        => /\ pc[i] \in {"rejected", "refused"}
           /\ hist[i].attempts = <<>>
           /\ thrown[i] = <<>>
           /\ \A h \in openBrowsers : h[1] # i
           /\ \A f \in DOMAIN files : files[f][1] # i
           /\ results[i] = NoResults
           /\ response[i].kind = (IF pc[i] = "refused" THEN "error"
                                                      ELSE "none")

\* the call with the absent profile 'ghost' has been answered with an error
C12_Witness ==
    \E i \in Invs :
        /\ args[i].profile = "ghost"
        /\ pc[i] = "refused"
        /\ response[i].kind = "error"
        /\ results[i].checks = <<>>

(***************************************************************************)
(* Properties of the action summary (Spec)                                 *)
(***************************************************************************)
\* how many issues of a list have the severity
CountSeverity(issues, sev) ==
    Cardinality({k \in 1..Len(issues) : issues[k].severity = sev})

\* C20: the recommendation of the action summary checkPage returns is a
\* function of the severities of the returned issues: with a critical issue
\* it says to fix N critical issues before release, N their number; else
\* with a warning it recommends reviewing the warnings; else it says that
\* all checks passed.
C20_Recommendation ==
    \A i \in Invs :
        pc[i] = "returned" =>
            LET issues == results[i].issues
                N == CountSeverity(issues, "critical")
                W == CountSeverity(issues, "warning")
                line == results[i].action_summary.action_required
            IN  /\ N >= 1 =>
                      line = "BLOCKER: fix " \o ToString(N)
                             \o " critical issues before release"
                /\ (N = 0 /\ W >= 1) =>
                      line = "Recommended: fix " \o ToString(W) \o " warnings"
                /\ (N = 0 /\ W = 0) => line = "All checks passed"

\* a result with two critical issues and one warning
C20_Witness ==
    \E i \in Invs :
        /\ pc[i] = "returned"
        /\ CountSeverity(results[i].issues, "critical") = 2
        /\ CountSeverity(results[i].issues, "warning") = 1
        /\ results[i].action_summary.action_required =
              "BLOCKER: fix 2 critical issues before release"

(***************************************************************************)
(* Properties of detectIssues on one page (SpecDetect)                     *)
(***************************************************************************)
\* the checks of which a page.evaluate throws on the page
FailingChecks(page) ==
    page.throwing \cup
    (IF page.locate = "throws"
        /\ \E k \in 1..Len(page.facts) : page.facts[k].check = "hscroll"
     THEN {"hscroll"} ELSE {})

\* C14: detectIssues does not throw when evaluations throw inside checks,
\* and it returns what the battery finds on the page from the facts of the
\* checks that did not throw: a check that threw contributes nothing, every
\* other check contributes all its issues.
C14_ExceptionContained ==
    detPhase = "done" =>
        /\ ~detOut.threw
        /\ detOut.issues =
              detectIssues(
                 SelectSeq(PageFacts(detIn.page),
                           LAMBDA f : f.check \notin FailingChecks(detIn.page)),
                 detIn.device)

\* on a mobile device the overflow check threw and the touch check found
\* its issue, the only one returned
C14_Witness ==
    /\ detPhase = "done"
    /\ detIn.page.throwing = {"overflow"}
    /\ \E k \in 1..Len(detIn.page.facts) :
          detIn.page.facts[k].check = "overflow"
    /\ Len(detOut.issues) = 1
    /\ detOut.issues[1].type = "accessibility"
    /\ detOut.issues[1].wcag = "2.5.5"

\* C15: on a page measured wider than its viewport detectIssues returns a
\* horizontal-scroll issue (layout, critical, blocks_release) whatever the
\* search for the overflowing element does.
C15_HorizontalScrollReported ==
    (/\ detPhase = "done"
     /\ \E k \in 1..Len(detIn.page.facts) :
           detIn.page.facts[k].check = "hscroll"
     /\ "hscroll" \notin detIn.page.throwing)
    => \E k \in 1..Len(detOut.issues) :
          /\ detOut.issues[k].id = "horizontal-scroll-" \o detIn.device.id
          /\ detOut.issues[k].type = "layout"
          /\ detOut.issues[k].severity = "critical"
          /\ detOut.issues[k].blocks_release

\* the check an issue of the battery comes from, read off its WCAG
\* criterion and, for the two layout checks, its title
CheckOf(issue) ==
    CASE issue.wcag = "2.5.5" -> "touch"
      [] issue.wcag = "1.4.3" -> "contrast"
      [] issue.wcag = "1.4.4" -> "font"
      [] issue.wcag = "1.1.1" -> "imgalt"
      [] issue.title \in {"Horizontal scroll on page",
                          "[Dark Mode] Horizontal scroll on page"} -> "hscroll"
      [] OTHER -> "overflow"

\* C21: two issues that the same check produced on the same device have
\* equal ids only if they target the same selector.
C21_IdTellsSelector ==
    detPhase = "done" =>
        \A j, k \in 1..Len(detOut.issues) :
            (/\ CheckOf(detOut.issues[j]) = CheckOf(detOut.issues[k])
             /\ detOut.issues[j].device = detOut.issues[k].device
             /\ detOut.issues[j].id = detOut.issues[k].id)
            => detOut.issues[j].element.selector =
               detOut.issues[k].element.selector

(***************************************************************************)
(* Properties of PixelComparator.compare and analyzeResults (SpecCompare)  *)
(***************************************************************************)
\* both files decode and their widths or heights differ
SizesDiffer ==
    /\ cmpIn.image1.png
    /\ cmpIn.image2.png
    /\ \/ cmpIn.image1.width # cmpIn.image2.width
       \/ cmpIn.image1.height # cmpIn.image2.height

\* C17: compare on two images of different width or height returns the
\* sizeMismatch outcome (success false, sizeMismatch true) with no
\* diffPixels and no diffPercent, and writes no diff raster.
C17_SizeMismatch ==
    (cmpPhase = "done" /\ SizesDiffer) =>
        /\ cmpOut.comparison.success = FALSE
        /\ "sizeMismatch" \in DOMAIN cmpOut.comparison
        /\ cmpOut.comparison.sizeMismatch = TRUE
        /\ "diffPixels" \notin DOMAIN cmpOut.comparison
        /\ "diffPercent" \notin DOMAIN cmpOut.comparison
        /\ "match" \notin DOMAIN cmpOut.comparison
        /\ written = {}

\* a 2x1 and a 1x2 raster, all of whose pixels differ, compared with a path
\* for the diff raster
C17_Witness ==
    /\ cmpPhase = "done"
    /\ cmpIn.image1.png /\ cmpIn.image2.png
    /\ cmpIn.image1.width = 2 /\ cmpIn.image1.height = 1
    /\ cmpIn.image2.width = 1 /\ cmpIn.image2.height = 2
    /\ cmpIn.image1.data = <<0, 0>> /\ cmpIn.image2.data = <<1, 1>>
    /\ cmpIn.outputDiffPath # NullPath
    /\ cmpOut.comparison.sizeMismatch = TRUE

\* the thresholds in force for the call
AcceptableInForce ==
    IF "acceptablePercent" \in DOMAIN cmpIn.thresholds
    THEN cmpIn.thresholds.acceptablePercent ELSE 1000

WarningInForce ==
    IF "warningPercent" \in DOMAIN cmpIn.thresholds
    THEN cmpIn.thresholds.warningPercent ELSE 10000

Reviewed(analysis) ==
    "requiresReview" \in DOMAIN analysis /\ analysis.requiresReview

\* C19 as stated: the three buckets read from diffPercent and the two
\* thresholds alone.
C19_Buckets ==
    cmpPhase = "done" =>
        LET c == cmpOut.comparison
            a == cmpOut.analysis
        IN  /\ c.success =>
                  /\ c.diffPercent < AcceptableInForce => a.status = "passed"
                  /\ (AcceptableInForce <= c.diffPercent
                      /\ c.diffPercent < WarningInForce)
                        => a.status = "warning" /\ Reviewed(a)
                  /\ c.diffPercent >= WarningInForce
                        => a.status = "failed" /\ Reviewed(a)
            /\ ~c.success => a.status # "passed"

\* C19 amended: identical images are passed; otherwise the tests are made
\* in order: below acceptablePercent is passed, else below warningPercent
\* is warning with review, else failed with review; thresholds given in the
\* call override the defaults; a comparison that did not succeed is mapped
\* to error.
C19_BucketsInOrder ==
    cmpPhase = "done" =>
        LET c == cmpOut.comparison
            a == cmpOut.analysis
        IN  /\ c.success =>
                  /\ (c.diffPixels = 0 \/ c.diffPercent < AcceptableInForce)
                        <=> a.status = "passed"
                  /\ (/\ c.diffPixels > 0
                      /\ AcceptableInForce <= c.diffPercent
                      /\ c.diffPercent < WarningInForce)
                        <=> a.status = "warning"
                  /\ (/\ c.diffPixels > 0
                      /\ AcceptableInForce <= c.diffPercent
                      /\ WarningInForce <= c.diffPercent)
                        <=> a.status = "failed"
                  /\ a.status \in {"warning", "failed"} <=> Reviewed(a)
            /\ ~c.success => a.status = "error" /\ ~Reviewed(a)

\* half of the pixels differ and both thresholds are given: 50 % is not
\* below acceptablePercent = 50 % and is below warningPercent = 75 %
C19_Witness ==
    /\ cmpPhase = "done"
    /\ cmpOut.comparison.success
    /\ cmpOut.comparison.diffPercent = 500000
    /\ DOMAIN cmpIn.thresholds = {"acceptablePercent", "warningPercent"}
    /\ cmpIn.thresholds.acceptablePercent = 500000
    /\ cmpIn.thresholds.warningPercent = 750000
    /\ cmpOut.analysis.status = "warning"

(***************************************************************************)
(* Properties of PixelComparator.compareDirectories (SpecDirs)             *)
(***************************************************************************)
\* the class of a file name, from the two directories
ClassOf(file) ==
    LET inB == file \in DOMAIN cmpIn.baselineDir
        inC == file \in DOMAIN cmpIn.currentDir
    IN  IF inB /\ ~inC THEN "missing"
        ELSE IF ~inB /\ inC THEN "new"
        ELSE LET b == cmpIn.baselineDir[file]
                 c == cmpIn.currentDir[file]
             IN  IF ~b.png \/ ~c.png \/ b.width # c.width
                    \/ b.height # c.height
                 THEN "error"
                 ELSE IF b.data = c.data THEN "matched" ELSE "different"

\* C18: compareDirectories yields exactly one entry for every file name of
\* the union of the two directories, and the entry's status is the class of
\* the name: matched, different, missing, new or error.
C18_OneEntryPerName ==
    cmpPhase = "dirs_done" =>
        LET names == DOMAIN cmpIn.baselineDir \cup DOMAIN cmpIn.currentDir
            c == cmpOut.comparisons
        IN  /\ Len(c) = Cardinality(names)
            /\ \A f \in names :
                  Cardinality({k \in 1..Len(c) : c[k].file = f}) = 1
            /\ \A k \in 1..Len(c) :
                  /\ c[k].file \in names
                  /\ c[k].status \in {"matched", "different", "missing",
                                       "new", "error"}
                  /\ c[k].status = ClassOf(c[k].file)

\* three names: one in both directories with different pixels, one only in
\* the baseline, one only in the current directory
C18_Witness ==
    /\ cmpPhase = "dirs_done"
    /\ Len(cmpOut.comparisons) = 3
    /\ \E i, j, k \in 1..3 :
          /\ cmpOut.comparisons[i].status = "different"
          /\ cmpOut.comparisons[j].status = "missing"
          /\ cmpOut.comparisons[k].status = "new"

(***************************************************************************)
(* Properties of the AI analysis step (SpecAI)                             *)
(***************************************************************************)
\* the classifier call of a log entry failed, timed out or was rate-limited
ClassifierFailed(entry) == entry.reply.kind = "failure"

\* C16: when the classifier call fails for a record, the call is still
\* answered with its result: results.issues, results.summary, the action
\* summary and the reported status are what checkPage produced, and the
\* record is as it was, its issues included, but for the aiAnalysis entry
\* that holds the error and no issues.
C16_ClassifierFailureContained ==
    \A i \in Invs :
        (\E n \in 1..Len(aiLog[i]) : ClassifierFailed(aiLog[i][n])) =>
            /\ pc[i] \in {"ai", "analysed", "done"}
            /\ results[i].issues = preAi[i].issues
            /\ results[i].summary = preAi[i].summary
            /\ results[i].action_summary = preAi[i].action_summary
            /\ Len(results[i].checks) = Len(preAi[i].checks)
            /\ pc[i] = "done" =>
                  /\ response[i].kind = "result"
                  /\ response[i].status = ResponseStatus(preAi[i].summary)
            /\ \A n \in 1..Len(aiLog[i]) :
                  ClassifierFailed(aiLog[i][n]) =>
                     LET now_ == results[i].checks[aiLog[i][n].record]
                         was == preAi[i].checks[aiLog[i][n].record]
                     IN  /\ DOMAIN now_ = DOMAIN was \cup {"aiAnalysis"}
                         /\ \A f \in DOMAIN was : now_[f] = was[f]
                         /\ "issues" \notin DOMAIN now_.aiAnalysis
                         /\ "error" \in DOMAIN now_.aiAnalysis

\* a call over two tuples, answered: the classifier returned an issue for
\* the first screenshot and was rate-limited for the second, whose record
\* the detector had marked with issues
C16_Witness ==
    \E i \in Invs :
        /\ pc[i] = "done"
        /\ response[i].kind = "result"
        /\ Len(aiLog[i]) = 2
        /\ aiLog[i][1].reply.kind = "issues"
        /\ ClassifierFailed(aiLog[i][2])
        /\ aiLog[i][2].reply.rate
        /\ results[i].checks[2].aiAnalysis.errorType = "rate_limit"
        /\ results[i].checks[2].issues_count > 0
        /\ results[i].issues # <<>>

(***************************************************************************)
(* Properties of the baseline store (SpecBaseline)                         *)
(***************************************************************************)
\* C13: the rasters saveBaseline writes are named {deviceId}_{browser}.png
\* in the directory of the URL, and the check with comparison compares
\* every record that has a screenshot and whose (device, browser) has a
\* saved raster against exactly that file.
C13_BaselineRoundTrip ==
    /\ \A f \in baselines :
          \/ f = "baselines/" \o urlToSlug(blArgs.url)
          \/ \E k \in 1..Len(BaselineTuples(blArgs)) :
                LET t == BaselineTuples(blArgs)[k]
                    stem == "baselines/" \o urlToSlug(blArgs.url) \o "/"
                            \o t.device.id \o "_" \o t.browser
                IN  f \in {stem \o ".png", stem \o ".json"}
    /\ blPhase = "done" =>
          \A k \in 1..Len(blChecks) :
             LET saved == "baselines/" \o urlToSlug(blArgs.url) \o "/"
                          \o blChecks[k].device_id \o "_"
                          \o blChecks[k].browser \o ".png"
             IN  ("screenshot" \in DOMAIN blChecks[k] /\ saved \in baselines)
                 => /\ "baselinePath" \in DOMAIN blChecks[k]
                    /\ blChecks[k].baselinePath = saved
                    /\ "comparison" \in DOMAIN blChecks[k]

(***************************************************************************)
(* Properties of the aggregation of checkPage (Spec)                       *)
(***************************************************************************)
\* the issues detectIssues returned on the tuples of invocation i, as tagged
DetectedOn(i) ==
    Flatten([k \in 1..Len(hist[i].detected) |-> hist[i].detected[k].issues])

\* C22: if an issue detected on some tuple of a checkPage run blocks the
\* release, the CheckResult returned has summary.blocks_release = true.
C22_BlockingVerdictKept ==
    \A i \in Invs :
        (Returned(i) /\ \E k \in 1..Len(DetectedOn(i)) :
                            DetectedOn(i)[k].blocks_release)
        => results[i].summary.blocks_release

\* the number of records of a CheckResult whose status is one of statuses
RecordsWith(res, statuses) ==
    Cardinality({k \in 1..Len(res.checks) : res.checks[k].status \in statuses})

\* C23: in a returned CheckResult summary.passed, summary.warnings and
\* summary.failed are the numbers of records with status passed, warning,
\* and failed or error.
C23_CountersAgreeWithRecords ==
    \A i \in Invs :
        Returned(i) =>
            /\ results[i].summary.passed = RecordsWith(results[i], {"passed"})
            /\ results[i].summary.warnings =
                  RecordsWith(results[i], {"warning"})
            /\ results[i].summary.failed =
                  RecordsWith(results[i], {"failed", "error"})

\* C24: in a returned CheckResult summary.total is the number of records,
\* error records included, and it is the sum of the three counters.
C24_TotalCountsRecords ==
    \A i \in Invs :
        Returned(i) =>
            /\ results[i].summary.total = Len(results[i].checks)
            /\ results[i].summary.total =
                  results[i].summary.passed + results[i].summary.failed
                  + results[i].summary.warnings

\* C27: the action summary of a returned CheckResult recommends "All checks
\* passed" only if no tuple of the run ended with status error or failed.
C27_PassedOnlyWithoutErrors ==
    \A i \in Invs :
        (/\ Returned(i)
         /\ results[i].action_summary.action_required = "All checks passed")
        => /\ RecordsWith(results[i], {"error", "failed"}) = 0
           /\ thrown[i] = <<>>

\* entry e of results.issues is the record of the finding of issue x
Represents(e, x) ==
    /\ "wcag" \in DOMAIN e
    /\ CheckOf(e) = CheckOf(x)
    /\ e.type = x.type
    /\ e.element = x.element

\* C28: two issues that different checks produced on the same tuple are
\* each represented by an entry of their own in results.issues.
C28_DifferentChecksKeptApart ==
    \A i \in Invs :
        Returned(i) =>
            \A t \in 1..Len(hist[i].detected) :
                LET found == hist[i].detected[t].issues
                IN  \A j, k \in 1..Len(found) :
                        CheckOf(found[j]) # CheckOf(found[k]) =>
                            \E p, q \in 1..Len(results[i].issues) :
                                /\ p # q
                                /\ Represents(results[i].issues[p], found[j])
                                /\ Represents(results[i].issues[q], found[k])

(***************************************************************************)
(* Properties of getAgent (SpecAgent)                                      *)
(***************************************************************************)
\* init() has loaded the agent
Initialised(a) == a.created /\ a.standards /\ a.devices /\ a.issueDetector

\* C25: whatever the interleaving of the tool calls, every agent getAgent
\* hands out has standards, devices and issueDetector loaded, also after an
\* init() that failed, and init() is called at most once.
C25_AgentInitialised ==
    /\ \A c \in DOMAIN gpc : gpc[c] = "returned" => Initialised(got[c])
    /\ inits <= 1

(***************************************************************************)
(* Progress of the batch (SpecBatchLive)                                   *)
(***************************************************************************)
\* C26: provided every running URL check terminates, every URL check that
\* waits for the semaphore comes to run, the batch call completes, and at
\* completion running is 0 and the wait queue is empty.
C26_NoLostWakeUp ==
    /\ \A k \in 1..MaxBatchUrls :
          (k \in DOMAIN bpc /\ bpc[k] = "waiting")
          ~> (k \in DOMAIN bpc /\ bpc[k] = "running")
    /\ <>(bphase = "done")
    /\ [](bphase = "done" => running = 0 /\ queue = <<>>)

\* a batch with more URLs than the cap has completed: the tasks beyond the
\* cap were queued at their start and every one of them has run
C26_Witness ==
    /\ bphase = "done"
    /\ Len(urlsToCheck) > CONCURRENCY
    /\ \A k \in 1..Len(urlsToCheck) : pages[k].status \in {"success", "error"}
    /\ running = 0
    /\ queue = <<>>

(***************************************************************************)
(* The counters of compareDirectories (SpecDirs)                           *)
(***************************************************************************)
\* C29: in the result of compareDirectories summary.total is the number of
\* comparison entries and the sum of matched, different, missing and new,
\* also when files do not decode or differ in size.
C29_CountersAccountForFiles ==
    cmpPhase = "dirs_done" =>
        /\ cmpOut.summary.total = Len(cmpOut.comparisons)
        /\ cmpOut.summary.total =
              cmpOut.summary.matched + cmpOut.summary.different
              + cmpOut.summary.missing + cmpOut.summary.new

(***************************************************************************)
(* Properties of RateLimiter.acquire (SpecRate)                            *)
(***************************************************************************)
\* at most maxRequests acquisitions lie within the window that ends now
WindowRespected == Len(recent) <= MaxRequests

\* a call of acquire() that waits comes to return
AcquireReturns ==
    \A c \in Callers :
        (c \in DOMAIN rpc /\ rpc[c] = "waiting")
        ~> (c \in DOMAIN rpc /\ rpc[c] = "returned")

\* C30: acquire admits at most maxRequests acquisitions within any window
\* of windowMs, whatever the interleaving of the callers, and every call of
\* acquire() eventually returns.
C30_LimitAndProgress == []WindowRespected /\ AcquireReturns
====
